---- MODULE Spec2Model ----
(***************************************************************************)
(* A model of the retrieval core of the aimagine demo:                     *)
(*   - FAISSService (src/aimagine/src/services/faiss_service.py): a flat   *)
(*     similarity structure with a parallel chunk_store, search, and       *)
(*     save/load to a directory;                                           *)
(*   - DataIngestionService chunking                                       *)
(*     (src/aimagine/src/services/data_ingestion.py);                      *)
(*   - EmbeddingService and the ingestion pipeline of demo.py              *)
(*     (src/aimagine/src/services/embedding_service.py);                   *)
(*   - the query API over Neo4j                                            *)
(*     (src/aimagine/src/services/api_service.py);                         *)
(* and of four components beside it:                                       *)
(*   - call_gemini_with_retry and the /api/generate event stream           *)
(*     (src/paper-to-notebook/backend/app.py);                             *)
(*   - RoundRobinLoadBalancer (src/module12/module12_load_balancing.py);   *)
(*   - LRUCache (src/module12/module12.py);                                *)
(*   - WindowMemory (src/module6.py).                                      *)
(* Vectors have small integer components, so squared-L2 distances and      *)
(* inner products are exact integers; a score is a rational num/den.       *)
(***************************************************************************)
EXTENDS Integers, Sequences, FiniteSets, TLC

\* the index model
VARIABLES svc, disk, saved, last
\* the chunker model
VARIABLES text, headers, config, pc, caller, btext, start, bchunks,
          raw, ni, normalized, result, exc

\* the ingestion pipeline
VARIABLES stage, document, embedded, outcome, file_path, processed_documents
\* concurrent callers of search
VARIABLES readers
\* the query API
VARIABLES kb, response
\* the notebook generator and the tutorial modules
VARIABLES retry, lb, lru, wm, stream

ivars == <<svc, disk, saved, last>>
cvars == <<text, headers, config, pc, caller, btext, start, bchunks,
           raw, ni, normalized, result, exc>>
pvars == <<stage, document, embedded, outcome, file_path, processed_documents>>
avars == <<kb, response>>
mvars == <<retry, lb, lru, wm, stream>>
vars == <<ivars, cvars, pvars, readers, avars, mvars>>

---------------------------------------------------------------------------
(* Bounds of the model *)

\* largest number of entries the index is grown to
MaxStore == 2
\* largest k passed to search
MaxK == 3
\* longest document text handed to the chunker
MaxTextLen == 4
\* largest capacity of an LRUCache, and the number of get calls followed
MaxCapacity == 2
MaxGets == 2
\* largest number of messages added to a WindowMemory
MaxMessages == 4
\* largest number of thinking texts the model streams in one generation
MaxThinking == 1
\* the keepalive comments of one stream are counted up to this number
MaxKeepalives == 1

(* Input domains *)

\* values of the constructor's index_type: the two documented ones and one other
IndexTypes == {"l2", "cosine", "euclidean"}
\* values of the constructor's dimension
Dims == {1, 2}
\* embedding / query vectors: two of length 2, one of length 1
Vectors == {<<1, 0>>, <<-1, 0>>, <<1>>}
\* the 'metadata' key of a chunk: absent (NoKey) or holding one value;
\* chunk.get('metadata', {}) of a chunk without the key is the empty dict
NoKey == <<>>
Key(x) == <<x>>
EmptyMeta == "{}"
\* the chunks handed to add_chunks
Chunks == {[text |-> "a", metadata |-> NoKey, embedding |-> <<1, 0>>],
           [text |-> "b", metadata |-> Key("m"), embedding |-> <<-1, 0>>],
           [text |-> "c", metadata |-> NoKey, embedding |-> <<1>>]}
\* batches: lists of 0, 1 or 2 chunks
Batches == {<<>>} \cup {<<c>> : c \in Chunks} \cup {<<c1, c2>> : c1 \in Chunks, c2 \in Chunks}

\* a file of the directory is absent (NoFile) or holds one value
NoFile == <<>>
File(x) == <<x>>
Content(f) == f[1]
\* no complete save has been made to the directory as it is now
NoSave == "none"

---------------------------------------------------------------------------
(* Arithmetic helpers *)

RECURSIVE SumTo(_, _)
SumTo(f, n) == IF n = 0 THEN 0 ELSE f[n] + SumTo(f, n - 1)

\* a float as an exact rational; den = 0 is +inf (numpy's 1/0.0)
Float(x) == [num |-> x, den |-> 1]

\* 1 / x in numpy float arithmetic: division by zero gives inf, no exception
Recip(x) == IF x > 0 THEN [num |-> 1, den |-> x]
            ELSE IF x < 0 THEN [num |-> -1, den |-> -x]
            ELSE [num |-> 1, den |-> 0]

\* a function on 1..n as the list of its values
AsList(f) == f \o <<>>

\* a >= b on scores
ScoreGE(a, b) == a.num * b.den >= b.num * a.den

---------------------------------------------------------------------------
(* The similarity structure: faiss.IndexFlatL2 / faiss.IndexFlatIP.        *)
(* An index is [metric, d, xb]: its metric, its dimension and the vectors  *)
(* it holds in insertion order (faiss id i is xb[i+1]).                    *)

IndexFlatL2(d) == [metric |-> "L2", d |-> d, xb |-> <<>>]
IndexFlatIP(d) == [metric |-> "IP", d |-> d, xb |-> <<>>]

ntotal(index) == Len(index.xb)

\* squared Euclidean distance, inner product
L2sqr(x, q) == SumTo([i \in 1..Len(x) |-> (x[i] - q[i]) * (x[i] - q[i])], Len(x))
InnerProduct(x, q) == SumTo([i \in 1..Len(x) |-> x[i] * q[i]], Len(x))

Dist(index, q, i) == IF index.metric = "L2" THEN L2sqr(index.xb[i], q)
                     ELSE InnerProduct(index.xb[i], q)

\* the distance faiss writes into a slot it could not fill: +FLT_MAX for L2,
\* -FLT_MAX for IP (any value beyond every real distance)
FLT_MAX == 1000
Sentinel(index) == IF index.metric = "L2" THEN FLT_MAX ELSE -FLT_MAX

\* index.search(q, k): k slots (distance, id), nearer first for L2, larger
\* product first for IP, the smaller id first among equals; the slots past
\* ntotal hold id -1
faiss_search(index, q, k) ==
    LET n  == ntotal(index)
        dv == AsList([i \in 1..n |-> Dist(index, q, i)])
        before(j, i) == IF index.metric = "L2"
                        THEN dv[j] < dv[i] \/ (dv[j] = dv[i] /\ j < i)
                        ELSE dv[j] > dv[i] \/ (dv[j] = dv[i] /\ j < i)
        place == AsList([i \in 1..n |-> Cardinality({j \in 1..n : before(j, i)}) + 1])
    IN  AsList([s \in 1..k |->
            IF s <= n
            THEN LET i == CHOOSE i \in 1..n : place[i] = s
                 IN  [dist |-> dv[i], idx |-> i - 1]
            ELSE [dist |-> Sentinel(index), idx |-> -1]])

\* index.add(x) for an n x d array: the rows are appended
faiss_add(index, rows) == [index EXCEPT !.xb = index.xb \o rows]

---------------------------------------------------------------------------
(* FAISSService *)

_create_index(index_type, dimension) ==
    IF index_type = "cosine" THEN IndexFlatIP(dimension) ELSE IndexFlatL2(dimension)

FAISSService(dimension, index_type) ==
    [dimension   |-> dimension,
     index_type  |-> index_type,
     index       |-> _create_index(index_type, dimension),
     chunk_store |-> <<>>]

\* chunk.get('metadata', {})
GetMetadata(chunk) == IF chunk.metadata = NoKey THEN EmptyMeta ELSE chunk.metadata[1]

\* np.array(embeddings) is an n x d array only if there is a row and all rows
\* have one length; index.add asserts that length to be the index's d
Homogeneous(chunks) == \A i, j \in 1..Len(chunks) :
                          Len(chunks[i].embedding) = Len(chunks[j].embedding)
Mismatch(index, chunks) == \E i \in 1..Len(chunks) : Len(chunks[i].embedding) # index.d

\* a variant that numbers the entries within their batch
ChunkData_InBatch(chunks, start_idx) ==
    [i \in 1..Len(chunks) |->
        [text     |-> chunks[i].text,
         metadata |-> GetMetadata(chunks[i]),
         index    |-> i - 1]]

ChunkData(chunks, start_idx) ==
    [i \in 1..Len(chunks) |->
        [text     |-> chunks[i].text,
         metadata |-> GetMetadata(chunks[i]),
         index    |-> start_idx + (i - 1)]]

\* a variant that fills chunk_store before the embeddings reach the index
add_chunks_StoreFirst(s, chunks) ==
    LET embeddings == [i \in 1..Len(chunks) |-> chunks[i].embedding]
        start_idx  == Len(s.chunk_store)
        stored     == [s EXCEPT !.chunk_store =
                          s.chunk_store \o [i \in 1..Len(chunks) |->
                              [text |-> chunks[i].text, metadata |-> GetMetadata(chunks[i]),
                               index |-> start_idx + (i - 1)]]]
    IN  IF Len(chunks) = 0 \/ ~Homogeneous(chunks)
        THEN [svc |-> stored, err |-> "ValueError"]
        ELSE IF Mismatch(s.index, chunks)
        THEN [svc |-> stored, err |-> "AssertionError"]
        ELSE [svc |-> [stored EXCEPT !.index = faiss_add(s.index, embeddings)],
              err |-> "none"]

\* add_chunks: the new service state and the error raised ("none" if none)
add_chunks(s, chunks) ==
    LET embeddings == [i \in 1..Len(chunks) |-> chunks[i].embedding]
        start_idx  == Len(s.chunk_store)
    IN  IF Len(chunks) = 0 \/ ~Homogeneous(chunks)
        THEN [svc |-> s, err |-> "ValueError"]
        ELSE IF Mismatch(s.index, chunks)
        THEN [svc |-> s, err |-> "AssertionError"]
        ELSE [svc |-> [s EXCEPT !.index = faiss_add(s.index, embeddings),
                                !.chunk_store = s.chunk_store \o ChunkData(chunks, start_idx)],
              err |-> "none"]

Score(s, dist) == IF s.index_type = "l2" THEN Recip(1 + dist) ELSE Float(dist)

\* a variant that reads chunk_store at the loop counter instead of the id
Results_ByLoopIndex(s, slots) ==
    LET numbered == [i \in 1..Len(slots) |-> [dist |-> slots[i].dist, idx |-> slots[i].idx, i |-> i - 1]]
        valid    == SelectSeq(numbered, LAMBDA h : h.idx # -1)
    IN  [j \in 1..Len(valid) |->
            [text     |-> s.chunk_store[valid[j].i + 1].text,
             metadata |-> s.chunk_store[valid[j].i + 1].metadata,
             score    |-> IF s.index_type = "l2" THEN Recip(1 + valid[j].dist)
                          ELSE Float(valid[j].dist),
             rank     |-> valid[j].i + 1]]

\* the loop of search over the slots: a slot with id -1 is skipped, the others
\* become results that keep the slot number as rank
Results(s, slots) ==
    LET numbered == [i \in 1..Len(slots) |-> [dist |-> slots[i].dist, idx |-> slots[i].idx, i |-> i - 1]]
        valid    == SelectSeq(numbered, LAMBDA h : h.idx # -1)
    IN  [j \in 1..Len(valid) |->
            [text     |-> s.chunk_store[valid[j].idx + 1].text,
             metadata |-> s.chunk_store[valid[j].idx + 1].metadata,
             score    |-> Score(s, valid[j].dist),
             rank     |-> valid[j].i + 1]]

\* search: the result list and the error raised
search(s, q, k) ==
    IF Len(q) # s.index.d
    THEN [out |-> <<>>, slots |-> <<>>, err |-> "AssertionError"]
    ELSE LET slots == faiss_search(s.index, q, k)
         IN  IF \E i \in 1..k : slots[i].idx # -1 /\ slots[i].idx >= Len(s.chunk_store)
             THEN [out |-> <<>>, slots |-> slots, err |-> "IndexError"]
             ELSE [out |-> Results(s, slots), slots |-> slots, err |-> "none"]

\* save_index writes index.faiss, then chunk_store.pkl
WriteIndex(d, s) == [d EXCEPT !.index = File(s.index)]
WriteStore(d, s) == [d EXCEPT !.store = File(s.chunk_store)]
save_index(d, s) == WriteStore(WriteIndex(d, s), s)

\* a variant that reads index.faiss only
load_index_KeepStore(s, d) ==
    IF d.index = NoFile
    THEN [svc |-> s, err |-> "RuntimeError"]
    ELSE IF d.store = NoFile
    THEN [svc |-> [s EXCEPT !.index = Content(d.index)], err |-> "FileNotFoundError"]
    ELSE [svc |-> [s EXCEPT !.index = Content(d.index)], err |-> "none"]

\* load_index reads index.faiss, then chunk_store.pkl
load_index(s, d) ==
    IF d.index = NoFile
    THEN [svc |-> s, err |-> "RuntimeError"]
    ELSE IF d.store = NoFile
    THEN [svc |-> [s EXCEPT !.index = Content(d.index)], err |-> "FileNotFoundError"]
    ELSE [svc |-> [s EXCEPT !.index = Content(d.index), !.chunk_store = Content(d.store)],
          err |-> "none"]


---------------------------------------------------------------------------
(* Python string and list operations used by the chunker.                  *)
(* A text is a sequence of characters; offsets are 0-based as in Python.   *)

Alphabet == {"a", ".", " "}
Whitespace == {" ", "\n", "\t"}
Markers == <<".", "!", "?", "\n">>

Min(a, b) == IF a < b THEN a ELSE b

\* a slice bound i of a sequence of length n as Python reads it: a negative
\* bound counts from the end, and the result is clamped to 0..n
PyIndex(i, n) == IF i < 0 THEN (IF i + n < 0 THEN 0 ELSE i + n) ELSE Min(i, n)

\* t[a:b]
Slice(t, a, b) == SubSeq(t, PyIndex(a, Len(t)) + 1, PyIndex(b, Len(t)))

RECURSIVE LStrip(_)
LStrip(t) == IF t # <<>> /\ Head(t) \in Whitespace THEN LStrip(Tail(t)) ELSE t

RECURSIVE RStrip(_)
RStrip(t) == IF t # <<>> /\ t[Len(t)] \in Whitespace
             THEN RStrip(SubSeq(t, 1, Len(t) - 1)) ELSE t

\* t.strip()
Strip(t) == RStrip(LStrip(t))

\* t.rfind(ch, a, b): the highest offset in [a, b) holding ch, or -1
RFind(t, ch, a, b) ==
    LET found == {i \in PyIndex(a, Len(t))..(PyIndex(b, Len(t)) - 1) : t[i + 1] = ch}
    IN  IF found = {} THEN -1 ELSE CHOOSE i \in found : \A j \in found : j <= i

\* max(...) of a non-empty set of integers
Max(S) == CHOOSE x \in S : \A y \in S : y <= x

---------------------------------------------------------------------------
(* DataIngestionService: chunk metadata.                                   *)
(* A metadata dict is a record that lists its keys; a field that is not a  *)
(* key holds a filler value.                                               *)

BasicMeta == [keys |-> {"type"}, type |-> "basic_chunk",
              header |-> "", level |-> 0, hierarchy |-> <<>>]

HeaderMeta(header, hierarchy) ==
    [keys |-> {"header", "level", "hierarchy"}, type |-> "",
     header |-> header.text, level |-> header.level, hierarchy |-> hierarchy]

\* m.update(other): other's keys overwrite or extend m's
Update(m, other) ==
    [keys      |-> m.keys \cup other.keys,
     type      |-> IF "type" \in other.keys THEN other.type ELSE m.type,
     header    |-> IF "header" \in other.keys THEN other.header ELSE m.header,
     level     |-> IF "level" \in other.keys THEN other.level ELSE m.level,
     hierarchy |-> IF "hierarchy" \in other.keys THEN other.hierarchy ELSE m.hierarchy]

Chunk(t, s, e, m) == [text |-> t, start_idx |-> s, end_idx |-> e, metadata |-> m]

---------------------------------------------------------------------------
(* _split_on_headers and _get_chunk_hierarchy *)

\* the headers taken in the order given
SortedHeaders_AsGiven(hs) == hs

\* sorted(headers, key=position): a stable sort
SortedHeaders(hs) ==
    LET rank(i) == Cardinality({j \in 1..Len(hs) :
                       \/ hs[j].position < hs[i].position
                       \/ (hs[j].position = hs[i].position /\ j < i)}) + 1
    IN  [r \in 1..Len(hs) |-> hs[CHOOSE i \in 1..Len(hs) : rank(i) = r]]

\* the loop without the update of current_level
RECURSIVE Ancestors_FixedLevel(_, _, _, _)
Ancestors_FixedLevel(current_header, hs, i, current_level) ==
    IF i = 0 THEN <<>>
    ELSE IF hs[i].position < current_header.position /\ hs[i].level < current_level
         THEN <<hs[i].text>> \o Ancestors_FixedLevel(current_header, hs, i - 1, current_level)
         ELSE Ancestors_FixedLevel(current_header, hs, i - 1, current_level)

\* the loop over reversed(headers) from list place i down to 1: the texts
\* collected, leaf first, with the running current_level
RECURSIVE Ancestors(_, _, _, _)
Ancestors(current_header, hs, i, current_level) ==
    IF i = 0 THEN <<>>
    ELSE IF hs[i].position < current_header.position /\ hs[i].level < current_level
         THEN <<hs[i].text>> \o Ancestors(current_header, hs, i - 1, hs[i].level)
         ELSE Ancestors(current_header, hs, i - 1, current_level)

Reverse(sq) == [i \in 1..Len(sq) |-> sq[Len(sq) + 1 - i]]

_get_chunk_hierarchy(current_header, hs) ==
    Reverse(Ancestors(current_header, hs, Len(hs), current_header.level))

RECURSIVE SplitFrom(_, _, _)
SplitFrom(t, hs, i) ==
    IF i > Len(hs) THEN <<>>
    ELSE LET end_pos    == IF i < Len(hs) THEN hs[i + 1].position ELSE Len(t)
             start_pos  == hs[i].position
             chunk_text == Strip(Slice(t, start_pos, end_pos))
             rest       == SplitFrom(t, hs, i + 1)
         IN  IF chunk_text # <<>>
             THEN <<Chunk(chunk_text, start_pos, end_pos,
                          HeaderMeta(hs[i], _get_chunk_hierarchy(hs[i], hs)))>> \o rest
             ELSE rest

_split_on_headers(t, hs) == SplitFrom(t, SortedHeaders(hs), 1)

---------------------------------------------------------------------------
(* One pass of the while loop of _create_basic_chunks, from window start   *)
(* `st` of text t: the chunk appended (none if its trimmed text is empty), *)
(* the next start, and the error raised.                                   *)

BreakPoints(t, st, end) == {RFind(t, Markers[m], st, end) : m \in 1..Len(Markers)}

\* the pass without the `if chunk_text:` test
BasicPass_KeepEmpty(t, st, cfg) ==
    LET end0   == st + cfg.chunk_size
        points == BreakPoints(t, st, end0) \ {-1}
    IN  IF end0 < Len(t) /\ points = {}
        THEN [err |-> "ValueError", chunks |-> <<>>, start |-> st]
        ELSE LET end == IF end0 < Len(t) THEN Max(points) + 1 ELSE Len(t)
             IN  [err    |-> "none",
                  chunks |-> <<Chunk(Strip(Slice(t, st, end)), st, end, BasicMeta)>>,
                  start  |-> end - cfg.chunk_overlap]

BasicPass(t, st, cfg) ==
    LET end0   == st + cfg.chunk_size
        points == BreakPoints(t, st, end0) \ {-1}
    IN  IF end0 < Len(t) /\ points = {}
        THEN [err |-> "ValueError", chunks |-> <<>>, start |-> st]
        ELSE LET end == IF end0 < Len(t)
                        THEN (IF Max(points) # -1 THEN Max(points) + 1 ELSE end0)
                        ELSE Len(t)
                 chunk_text == Strip(Slice(t, st, end))
             IN  [err    |-> "none",
                  chunks |-> IF chunk_text # <<>>
                             THEN <<Chunk(chunk_text, st, end, BasicMeta)>> ELSE <<>>,
                  start  |-> end - cfg.chunk_overlap]

---------------------------------------------------------------------------
(* One pass of the for loop of _normalize_chunk_sizes over a chunk that is *)
(* not oversized: merged into the previous chunk, or appended.             *)

\* the pass without the test of the merged length
NormalizePass_AlwaysMerge(norm, chunk, cfg) ==
    IF Len(chunk.text) < cfg.min_chunk_size /\ norm # <<>>
    THEN LET prev_chunk    == norm[Len(norm)]
             combined_text == prev_chunk.text \o <<" ">> \o chunk.text
         IN  [norm EXCEPT ![Len(norm)] =
                 [prev_chunk EXCEPT !.text = combined_text, !.end_idx = chunk.end_idx]]
    ELSE Append(norm, chunk)

NormalizePass(norm, chunk, cfg) ==
    IF Len(chunk.text) < cfg.min_chunk_size /\ norm # <<>>
    THEN LET prev_chunk    == norm[Len(norm)]
             combined_text == prev_chunk.text \o <<" ">> \o chunk.text
         IN  IF Len(combined_text) <= cfg.max_chunk_size
             THEN [norm EXCEPT ![Len(norm)] =
                      [prev_chunk EXCEPT !.text = combined_text, !.end_idx = chunk.end_idx]]
             ELSE Append(norm, chunk)
    ELSE Append(norm, chunk)

\* the sub-chunks of an oversized chunk, each updated with its metadata
Inherit(sub_chunks, chunk) ==
    [i \in 1..Len(sub_chunks) |->
        [sub_chunks[i] EXCEPT !.metadata = Update(sub_chunks[i].metadata, chunk.metadata)]]

\* the oversized branch once the sub-chunks are there: normalized_chunks is
\* extended with them, and control falls through to the append of the chunk
Resplit(norm, sub_chunks, chunk) == Append(norm \o Inherit(sub_chunks, chunk), chunk)

---------------------------------------------------------------------------
(* State of the index model.                                               *)
(*   svc    the FAISSService object in use                                 *)
(*   disk   the index directory: its two artifacts, each File(x) or NoFile *)
(*   last   the last call: its name, the error it raised, the k of a search *)
(*          and, for load_index, whether it was the first call on a new    *)
(*          object                                                         *)
(*   saved  index_type of the service that made the last complete          *)
(*          save_index, whose two artifacts the directory now holds        *)

Call(op, err) == [op |-> op, err |-> err, k |-> 0, fresh |-> FALSE]

DefaultConfig == [chunk_size |-> 3, chunk_overlap |-> 0, split_on_headings |-> TRUE,
                  min_chunk_size |-> 2, max_chunk_size |-> 3]

\* the callers of search: none has called
Readers == {"r1", "r2"}
ReaderIdle == [pc |-> "idle", q |-> <<>>, k |-> 0, slots |-> <<>>, i |-> 0, out |-> <<>>]
ReadersIdle == readers = [r \in Readers |-> ReaderIdle]

\* the paths handed to process_file: a Path is its stem and its suffix
FilePath(stem, suffix) == [stem |-> stem, suffix |-> suffix]
FilePaths == {FilePath("a", ".md"), FilePath("B", ".MD"), FilePath("c", ".txt"),
              FilePath("d", ".md"), FilePath("d", ".txt"), FilePath("e", ".md"),
              FilePath("g", ".md")}
KbFile == FilePath("a", ".md")

\* str(file_path)
PathStr(path) == <<path.stem, path.suffix>>

\* DataIngestionService.__init__: processed_documents is the empty dict (no
\* key holds a document)
NoDocuments == [key \in {PathStr(path) : path \in FilePaths} |-> NoFile]

\* the pipeline before it is run
PipelineIdle ==
    /\ stage = "idle" /\ document = NoFile /\ embedded = <<>> /\ outcome = "none"
    /\ file_path = KbFile /\ processed_documents = NoDocuments

\* the query API before any request, over an empty knowledge base
NoResponse == [status |-> 0, query |-> <<>>, num_results |-> 0, min_score |-> Float(0),
               results |-> <<>>]
ApiIdle == kb = <<>> /\ response = NoResponse

\* call_gemini_with_retry before it is called
NoOutcome == [kind |-> "none", text |-> "", error |-> {}]
RetryIdle == [pc |-> "idle", attempt |-> 0, calls |-> <<>>, waits |-> <<>>,
              last_error |-> <<>>, outcome |-> NoOutcome]

\* the notebook generator and the tutorial modules before they are used
\* the round-robin balancer over the module's ENDPOINTS, all healthy, before
\* any request: pc, the endpoint statuses, current_index, the start_index and
\* the passes of the call in hand, the statuses at its entry, whether it reset
\* them, and the index it returned
BalancerIdle ==
    [pc |-> "idle", status |-> <<"healthy", "healthy", "healthy">>, current_index |-> 0,
     start_index |-> 0, passes |-> 0, entry |-> <<"healthy", "healthy", "healthy">>,
     reset |-> FALSE, returned |-> 0]

\* an LRUCache as constructed: the OrderedDict as the list of its items,
\* oldest first, the capacity, the counters, the keys by their last use
\* (a hit of get or a set; the latest last), and the last call with its result
\* (<<>> is None)
NoCall == [op |-> "none", key |-> <<>>, value |-> "", result |-> <<>>]
LRUCache(capacity) ==
    [cache |-> <<>>, capacity |-> capacity, hits |-> 0, misses |-> 0,
     used |-> <<>>, last |-> NoCall]

\* a WindowMemory as constructed: messages holds the system message
SystemMessage == [role |-> "system", content |-> "You are a helpful AI assistant."]
WindowMemory(window_size, max_tokens) ==
    [messages |-> <<SystemMessage>>, window_size |-> window_size,
     max_tokens |-> max_tokens, full_history |-> <<>>]

\* /api/generate before a request: no pipeline thread, no event stream
StreamIdle ==
    [pos |-> 0, thinking |-> 0, emitted |-> <<>>, callbacks |-> <<>>,
     progress_queue |-> <<>>, task |-> "none", pc |-> "idle", pending |-> <<>>,
     back |-> "idle", sent |-> <<>>, draft |-> FALSE, output |-> FALSE,
     keepalives |-> 0]

ModulesIdle ==
    /\ retry = RetryIdle /\ lb = BalancerIdle /\ lru = LRUCache(1)
    /\ wm = WindowMemory(10, 4000) /\ stream = StreamIdle

\* the chunker before any document is handed to it
ChunkerIdle ==
    /\ text = <<>> /\ headers = <<>> /\ config = DefaultConfig
    /\ pc = "idle" /\ caller = "none" /\ btext = <<>> /\ start = 0 /\ bchunks = <<>>
    /\ raw = <<>> /\ ni = 0 /\ normalized = <<>> /\ result = <<>> /\ exc = "none"

IndexInit ==
    /\ svc \in {FAISSService(d, t) : d \in Dims, t \in IndexTypes}
    /\ disk = [index |-> NoFile, store |-> NoFile]
    /\ saved = NoSave
    /\ last = Call("none", "none")
    /\ ChunkerIdle /\ PipelineIdle /\ ReadersIdle /\ ApiIdle /\ ModulesIdle

\* a new FAISSService object replaces the one in use
Construct(d, t) ==
    /\ svc' = FAISSService(d, t)
    /\ last' = Call("construct", "none")
    /\ UNCHANGED <<disk, saved, cvars, pvars, readers, avars, mvars>>

AddChunks(chunks) ==
    LET r == add_chunks(svc, chunks)
    IN  /\ Len(svc.chunk_store) + Len(chunks) <= MaxStore
        /\ ntotal(svc.index) + Len(chunks) <= MaxStore
        /\ svc' = r.svc
        /\ last' = Call("add_chunks", r.err)
        /\ UNCHANGED <<disk, saved, cvars, pvars, readers, avars, mvars>>

Search(q, k) ==
    /\ last' = [Call("search", search(svc, q, k).err) EXCEPT !.k = k]
    /\ UNCHANGED <<svc, disk, saved, cvars, pvars, readers, avars, mvars>>

SaveIndex ==
    /\ disk' = save_index(disk, svc)
    /\ saved' = svc.index_type
    /\ last' = Call("save_index", "none")
    /\ UNCHANGED <<svc, cvars, pvars, readers, avars, mvars>>

LoadIndex ==
    LET r == load_index(svc, disk)
    IN  /\ svc' = r.svc
        /\ last' = [Call("load_index", r.err) EXCEPT !.fresh = (last.op = "construct")]
        /\ UNCHANGED <<disk, saved, cvars, pvars, readers, avars, mvars>>

IndexNext ==
    \/ \E d \in Dims, t \in IndexTypes : Construct(d, t)
    \/ \E chunks \in Batches : AddChunks(chunks)
    \/ \E q \in Vectors, k \in 1..MaxK : Search(q, k)
    \/ SaveIndex
    \/ LoadIndex

Spec == IndexInit /\ [][IndexNext]_vars

\* save_index interrupted between its two writes: index.faiss is written and
\* opening chunk_store.pkl for writing raises OSError
SaveIndexFails ==
    /\ disk' = WriteIndex(disk, svc)
    /\ saved' = NoSave
    /\ last' = Call("save_index", "OSError")
    /\ UNCHANGED <<svc, cvars, pvars, readers, avars, mvars>>

FaultNext == IndexNext \/ SaveIndexFails

SpecFaults == IndexInit /\ [][FaultNext]_vars

---------------------------------------------------------------------------
(* State of the chunker model: one call of _create_structured_chunks.      *)
(*   text, headers, config  the call's inputs                              *)
(*   pc      where the call is: "parsed" (in the pipeline, before          *)
(*           process_file has cleaned the text), "idle", "basic" (the      *)
(*           while loop of                                                 *)
(*           _create_basic_chunks), "normalize" (the for loop of           *)
(*           _normalize_chunk_sizes), "done" (returned), "raised"          *)
(*   caller  who called _create_basic_chunks: "structured" or "normalize"  *)
(*   btext, start, bchunks  _create_basic_chunks' text, start and chunks   *)
(*   raw, ni, normalized    _normalize_chunk_sizes' chunks, the place of   *)
(*                          its loop in them, and normalized_chunks        *)
(*   result  the list returned;  exc  the exception raised                 *)

Texts == UNION {[1..n -> Alphabet] : n \in 0..MaxTextLen}

\* headers with in-range positions, given in any order; the first one of the
\* list is a level-1 heading, the second a level-2 heading
HeaderLists(t) ==
    LET P == 0..(Len(t) - 1)
    IN  {<<>>}
        \cup {<<[text |-> "H1", level |-> 1, position |-> p]>> : p \in P}
        \cup {<<[text |-> "H1", level |-> 1, position |-> p],
                [text |-> "H2", level |-> 2, position |-> r]>> : p \in P, r \in P}

\* the configurations: 0 <= chunk_overlap < chunk_size, and
\* min_chunk_size <= chunk_size <= max_chunk_size as in the defaults
Configs == {c \in [chunk_size : {2, 3}, chunk_overlap : {0, 1, 2},
                    split_on_headings : BOOLEAN,
                    min_chunk_size : {2}, max_chunk_size : {3}] :
               c.chunk_overlap < c.chunk_size}

\* the while loop is followed for at most this many appended chunks; a loop
\* that ends appends at most one chunk per character
MaxChunks == MaxTextLen + 2

IndexIdle ==
    /\ svc = FAISSService(2, "l2")
    /\ disk = [index |-> NoFile, store |-> NoFile]
    /\ saved = NoSave
    /\ last = Call("none", "none")

ChunkInit ==
    /\ IndexIdle /\ PipelineIdle /\ ReadersIdle /\ ApiIdle /\ ModulesIdle
    /\ text \in Texts
    /\ headers \in HeaderLists(text)
    /\ config \in Configs
    /\ pc = "idle" /\ caller = "none" /\ btext = <<>> /\ start = 0 /\ bchunks = <<>>
    /\ raw = <<>> /\ ni = 0 /\ normalized = <<>> /\ result = <<>> /\ exc = "none"

\* entry of _create_basic_chunks(t)
CallBasic(t, who) ==
    /\ pc' = "basic" /\ caller' = who
    /\ btext' = t /\ start' = 0 /\ bchunks' = <<>>

\* entry of _normalize_chunk_sizes(chunks)
CallNormalize(chunks) ==
    /\ pc' = "normalize" /\ raw' = chunks /\ ni' = 1 /\ normalized' = <<>>

\* the branch taken on the header list alone, without split_on_headings
CreateStructuredChunks_OnHeadersAlone ==
    /\ pc = "idle"
    /\ IF headers # <<>>
       THEN /\ CallNormalize(_split_on_headers(text, headers))
            /\ UNCHANGED <<caller, btext, start, bchunks>>
       ELSE /\ CallBasic(text, "structured")
            /\ UNCHANGED <<raw, ni, normalized>>
    /\ UNCHANGED <<text, headers, config, result, exc, ivars, pvars, readers, avars, mvars>>

\* _create_structured_chunks up to its first call
CreateStructuredChunks ==
    /\ pc = "idle"
    /\ IF config.split_on_headings /\ headers # <<>>
       THEN /\ CallNormalize(_split_on_headers(text, headers))
            /\ UNCHANGED <<caller, btext, start, bchunks>>
       ELSE /\ CallBasic(text, "structured")
            /\ UNCHANGED <<raw, ni, normalized>>
    /\ UNCHANGED <<text, headers, config, result, exc, ivars, pvars, readers, avars, mvars>>

\* one pass of the while loop
BasicStep ==
    /\ pc = "basic"
    /\ start < Len(btext)
    /\ Len(bchunks) < MaxChunks
    /\ LET r == BasicPass(btext, start, config)
       IN  IF r.err # "none"
           THEN /\ pc' = "raised" /\ exc' = r.err
                /\ UNCHANGED <<start, bchunks>>
           ELSE /\ bchunks' = bchunks \o r.chunks
                /\ start' = r.start
                /\ UNCHANGED <<pc, exc>>
    /\ UNCHANGED <<text, headers, config, caller, btext, raw, ni, normalized, result, ivars, pvars, readers, avars, mvars>>

\* the while loop ends and _create_basic_chunks returns to its caller; in
\* _normalize_chunk_sizes the sub-chunks are appended and, the branch having no
\* continue, so is the oversized chunk itself
BasicReturn ==
    /\ pc = "basic"
    /\ start >= Len(btext)
    /\ IF caller = "structured"
       THEN CallNormalize(bchunks)
       ELSE /\ pc' = "normalize"
            /\ normalized' = Resplit(normalized, bchunks, raw[ni])
            /\ ni' = ni + 1
            /\ UNCHANGED raw
    /\ UNCHANGED <<text, headers, config, caller, btext, start, bchunks, result, exc, ivars, pvars, readers, avars, mvars>>

\* one pass of the for loop
NormalizeStep ==
    /\ pc = "normalize"
    /\ ni <= Len(raw)
    /\ IF Len(raw[ni].text) > config.max_chunk_size
       THEN /\ CallBasic(raw[ni].text, "normalize")
            /\ UNCHANGED <<ni, normalized>>
       ELSE /\ normalized' = NormalizePass(normalized, raw[ni], config)
            /\ ni' = ni + 1
            /\ UNCHANGED <<pc, caller, btext, start, bchunks>>
    /\ UNCHANGED <<text, headers, config, raw, result, exc, ivars, pvars, readers, avars, mvars>>

\* the for loop ends; _create_structured_chunks returns the list
NormalizeReturn ==
    /\ pc = "normalize"
    /\ ni > Len(raw)
    /\ pc' = "done"
    /\ result' = normalized
    /\ UNCHANGED <<text, headers, config, caller, btext, start, bchunks,
                   raw, ni, normalized, exc, ivars, pvars, readers, avars, mvars>>

ChunkNext ==
    \/ CreateStructuredChunks
    \/ BasicStep
    \/ BasicReturn
    \/ NormalizeStep
    \/ NormalizeReturn

SpecChunk == ChunkInit /\ [][ChunkNext]_vars

\* Documents with deeper heading structure: up to three headings H1, H2, H3,
\* each of any level 1..3 and at any position of the text, in any order of
\* positions; the texts have full length, without blanks, and the windows
\* of a re-split do not overlap
HeadingNames == <<"H1", "H2", "H3">>
Levels == 1..3

HeadingTexts == [1..MaxTextLen -> {"a", "."}]

HeadingLists(t) ==
    UNION {{hs \in [1..n -> [text : {"H1", "H2", "H3"}, level : Levels,
                             position : 0..(Len(t) - 1)]] :
               \A i \in 1..n : hs[i].text = HeadingNames[i]} : n \in 1..Len(HeadingNames)}

HeadingInit ==
    /\ IndexIdle /\ PipelineIdle /\ ReadersIdle /\ ApiIdle /\ ModulesIdle
    /\ text \in HeadingTexts
    /\ headers \in HeadingLists(text)
    /\ config \in {c \in Configs : c.split_on_headings /\ c.chunk_overlap = 0}
    /\ pc = "idle" /\ caller = "none" /\ btext = <<>> /\ start = 0 /\ bchunks = <<>>
    /\ raw = <<>> /\ ni = 0 /\ normalized = <<>> /\ result = <<>> /\ exc = "none"

SpecHeadings == HeadingInit /\ [][ChunkNext]_vars

\* Documents with text before their one heading: the heading of a text of
\* letters and full stops stands at offset 0 or 1, and its span is longer
\* than max_chunk_size, so that normalization splits it again
PreambleTexts == [1..(MaxTextLen + 1) -> {"a", "."}]

PreambleInit ==
    /\ IndexIdle /\ PipelineIdle /\ ReadersIdle /\ ApiIdle /\ ModulesIdle
    /\ text \in PreambleTexts
    /\ headers \in {<<[text |-> "H1", level |-> 1, position |-> p]>> : p \in 0..1}
    /\ config \in {c \in Configs : c.split_on_headings /\ c.chunk_overlap = 0}
    /\ pc = "idle" /\ caller = "none" /\ btext = <<>> /\ start = 0 /\ bchunks = <<>>
    /\ raw = <<>> /\ ni = 0 /\ normalized = <<>> /\ result = <<>> /\ exc = "none"

SpecPreamble == PreambleInit /\ [][ChunkNext]_vars

---------------------------------------------------------------------------
(* The ingestion pipeline, setup_knowledge_base of demo.py:                *)
(* process_file, generate_embeddings, add_chunks, save_index.              *)
(*   stage     where the pipeline is                                       *)
(*   document  what process_file returned: NoFile before, File(dict) after *)
(*   embedded  what generate_embeddings returned                           *)
(*   outcome   what the pipeline's caller receives: "returned" or the name *)
(*             of the exception raised                                     *)
(* pc = "parsed": the parser has returned the raw text and the headers.    *)

\* re.sub(r'\s+', ' ', text): every run of whitespace becomes one blank
RECURSIVE Collapse(_)
Collapse(t) ==
    IF t = <<>> THEN <<>>
    ELSE IF Head(t) \in Whitespace THEN <<" ">> \o Collapse(LStrip(t))
    ELSE <<Head(t)>> \o Collapse(Tail(t))

\* _clean_text; the characters of the model's texts are all kept by the
\* third substitution, and the second finds nothing after the first
_clean_text(t) == Strip(Collapse(t))

\* model.encode(text, normalize_embeddings=True): the pretrained model is a
\* fixed function from texts to unit vectors of the model's dimension
Encode(t) ==
    LET dots == Cardinality({i \in 1..Len(t) : t[i] = "."})
    IN  IF dots = 0 THEN (IF Len(t) % 2 = 0 THEN <<1, 0>> ELSE <<0, 1>>)
        ELSE (IF Len(t) % 2 = 0 THEN <<-1, 0>> ELSE <<0, -1>>)

\* model.encode(texts, normalize_embeddings=True) of a list: one row per text
EncodeBatch(texts) == [i \in 1..Len(texts) |-> Encode(texts[i])]

generate_embedding(t) == Encode(t)

WithEmbedding(chunk, embedding) ==
    [text |-> chunk.text, start_idx |-> chunk.start_idx, end_idx |-> chunk.end_idx,
     metadata |-> chunk.metadata, embedding |-> embedding]

\* a variant that pairs the chunks with the rows in reverse
generate_embeddings_Misaligned(chunks) ==
    LET texts      == [i \in 1..Len(chunks) |-> chunks[i].text]
        embeddings == EncodeBatch(texts)
    IN  [i \in 1..Len(chunks) |-> WithEmbedding(chunks[i], embeddings[Len(chunks) + 1 - i])]

\* generate_embeddings: zip(chunks, embeddings) sets each chunk's 'embedding'
generate_embeddings(chunks) ==
    LET texts      == [i \in 1..Len(chunks) |-> chunks[i].text]
        embeddings == EncodeBatch(texts)
    IN  [i \in 1..Min(Len(chunks), Len(embeddings)) |-> WithEmbedding(chunks[i], embeddings[i])]

\* a passage with its embedding as add_chunks reads it: it has the three keys
AsIndexChunk(c) == [text |-> c.text, metadata |-> Key(c.metadata), embedding |-> c.embedding]

PipelineInit ==
    /\ IndexIdle /\ ReadersIdle /\ ApiIdle /\ ModulesIdle
    /\ text \in Texts
    /\ headers \in HeaderLists(text)
    /\ config \in Configs
    /\ pc = "parsed" /\ caller = "none" /\ btext = <<>> /\ start = 0 /\ bchunks = <<>>
    /\ raw = <<>> /\ ni = 0 /\ normalized = <<>> /\ result = <<>> /\ exc = "none"
    /\ PipelineIdle

\* process_file up to the call of _create_structured_chunks in _process_content
ProcessFile ==
    /\ stage = "idle" /\ pc = "parsed"
    /\ text' = _clean_text(text)
    /\ pc' = "idle"
    /\ stage' = "process_file"
    /\ UNCHANGED <<headers, config, caller, btext, start, bchunks, raw, ni, normalized,
                   result, exc, document, embedded, outcome, file_path, processed_documents,
                   ivars, readers, avars, mvars>>

\* a variant that starts the dict anew with the one document
Store_Alone(docs, key, doc) == [k \in DOMAIN docs |-> IF k = key THEN File(doc) ELSE NoFile]

\* self.processed_documents[key] = doc
Store(docs, key, doc) == [docs EXCEPT ![key] = File(doc)]

\* process_file stores the processed content and returns it
ProcessFileReturn ==
    /\ stage = "process_file" /\ pc = "done"
    /\ document' = File([file_path |-> PathStr(file_path), chunks |-> result,
                          num_chunks |-> Len(result)])
    /\ processed_documents' = Store(processed_documents, PathStr(file_path), Content(document'))
    /\ stage' = "processed"
    /\ UNCHANGED <<embedded, outcome, file_path, ivars, cvars, readers, avars, mvars>>

\* process_file wraps whatever was raised in an Exception
ProcessFileRaises ==
    /\ stage = "process_file" /\ pc = "raised"
    /\ stage' = "failed"
    /\ outcome' = "Exception"
    /\ UNCHANGED <<document, embedded, file_path, processed_documents,
                   ivars, cvars, readers, avars, mvars>>

\* the chunk dicts of the document, which processed_documents holds too, are
\* the ones that get the embeddings
GenerateEmbeddings ==
    /\ stage = "processed"
    /\ embedded' = generate_embeddings(Content(document).chunks)
    /\ document' = File([Content(document) EXCEPT !.chunks = embedded'])
    /\ processed_documents' = Store(processed_documents, PathStr(file_path), Content(document'))
    /\ stage' = "embedded"
    /\ UNCHANGED <<outcome, file_path, ivars, cvars, readers, avars, mvars>>

IndexChunks ==
    /\ stage = "embedded"
    /\ LET r == add_chunks(svc, [i \in 1..Len(embedded) |-> AsIndexChunk(embedded[i])])
       IN  /\ svc' = r.svc
           /\ last' = Call("add_chunks", r.err)
           /\ IF r.err = "none"
              THEN stage' = "indexed" /\ UNCHANGED outcome
              ELSE stage' = "failed" /\ outcome' = r.err
    /\ UNCHANGED <<disk, saved, document, embedded, file_path, processed_documents,
                   cvars, readers, avars, mvars>>

SaveAndReturn ==
    /\ stage = "indexed"
    /\ disk' = save_index(disk, svc)
    /\ saved' = svc.index_type
    /\ last' = Call("save_index", "none")
    /\ stage' = "returned"
    /\ outcome' = "returned"
    /\ UNCHANGED <<svc, document, embedded, file_path, processed_documents,
                   cvars, readers, avars, mvars>>

PipelineNext ==
    \/ ProcessFile
    \/ CreateStructuredChunks
    \/ BasicStep
    \/ BasicReturn
    \/ NormalizeStep
    \/ NormalizeReturn
    \/ ProcessFileReturn
    \/ ProcessFileRaises
    \/ GenerateEmbeddings
    \/ IndexChunks
    \/ SaveAndReturn

SpecPipeline == PipelineInit /\ [][PipelineNext]_vars

---------------------------------------------------------------------------
(* Calls of process_file on one DataIngestionService, one after the other, *)
(* with paths that exist or not, with or without a registered parser.      *)

\* file_path.exists()
Exists(path) == path.stem # "d"

\* suffix.lower()
Lower(suffix) == IF suffix = ".MD" THEN ".md" ELSE suffix

\* self.parsers
Parsers == {".md"}

\* what parser.parse(file_path) does at the time of the call: it returns the
\* raw text and the headers, or it raises (e.md is not UTF-8); a.md holds one
\* of two texts, the text of g.md has a window without a marker
Parsed(t) == [ok |-> TRUE, text |-> t, headers |-> <<>>]
ParseRaises == [ok |-> FALSE, text |-> <<>>, headers |-> <<>>]

ParseResults(path) ==
    IF path.stem = "e" THEN {ParseRaises}
    ELSE IF path.stem = "g" THEN {Parsed(<<"a", "a", "a", "a">>)}
    ELSE IF path.stem = "a" THEN {Parsed(<<"a", ".", " ", "a">>), Parsed(<<"a", ".">>)}
    ELSE {Parsed(<<".", "a">>)}

FilesInit ==
    /\ IndexIdle /\ ChunkerIdle /\ PipelineIdle /\ ReadersIdle /\ ApiIdle /\ ModulesIdle

\* process_file up to the return of parser.parse: the two tests, then the parse
ProcessFileOpen(path) ==
    /\ \/ stage = "idle" /\ pc = "idle"
       \/ stage \in {"processed", "failed"}
    /\ file_path' = path
    /\ document' = NoFile
    /\ IF ~Exists(path)
       THEN /\ stage' = "failed" /\ outcome' = "FileNotFoundError"
            /\ UNCHANGED cvars
       ELSE IF Lower(path.suffix) \notin Parsers
       THEN /\ stage' = "failed" /\ outcome' = "ValueError"
            /\ UNCHANGED cvars
       ELSE \E parsed \in ParseResults(path) :
               IF ~parsed.ok
               THEN /\ stage' = "failed" /\ outcome' = "Exception"
                    /\ UNCHANGED cvars
               ELSE /\ stage' = "idle" /\ outcome' = "none"
                    /\ text' = parsed.text /\ headers' = parsed.headers
                    /\ pc' = "parsed" /\ caller' = "none"
                    /\ btext' = <<>> /\ start' = 0 /\ bchunks' = <<>>
                    /\ raw' = <<>> /\ ni' = 0 /\ normalized' = <<>>
                    /\ result' = <<>> /\ exc' = "none"
                    /\ UNCHANGED config
    /\ UNCHANGED <<embedded, processed_documents, ivars, readers, avars, mvars>>

FilesNext ==
    \/ \E path \in FilePaths : ProcessFileOpen(path)
    \/ ProcessFile
    \/ CreateStructuredChunks
    \/ BasicStep
    \/ BasicReturn
    \/ NormalizeStep
    \/ NormalizeReturn
    \/ ProcessFileReturn
    \/ ProcessFileRaises

SpecFiles == FilesInit /\ [][FilesNext]_vars

---------------------------------------------------------------------------
(* The query API of api_service.py: POST /api/search over the chunks that  *)
(* process_knowledge_base stored in Neo4j.                                 *)
(*   kb        the Chunk nodes, in the order stored                        *)
(*   response  the last response of /api/search with the request it        *)
(*             answers: status 200, 422 (the request model rejected it),   *)
(*             or 0 before any request                                     *)

\* SearchQuery: num_results has ge=1, le=10 and min_score has ge=0, le=1
NumResultsMin == 1
NumResultsMax == 10
MinScoreMin == 0
MinScoreMax == 1

\* embeddings with whole-number lengths, so that cosines are rationals
KbVectors == {<<1, 0>>, <<-1, 0>>, <<3, 4>>}

KbChunks == {[context |-> "s", text |-> v, embedding |-> v] : v \in KbVectors}

KbBatches == UNION {[1..n -> KbChunks] : n \in 0..MaxStore}

\* the requests: num_results and min_score inside, on and outside their limits
NumResultsValues == {0, 1, 2, 10, 11}
MinScoreValues == {[num |-> n, den |-> 5] : n \in {-1, 0, 3, 5, 6}}

Norm(v) == LET sq == InnerProduct(v, v) IN CHOOSE n \in 0..sq : n * n = sq

\* gds.similarity.cosine(c.embedding, $query_embedding)
Cosine(x, q) == [num |-> InnerProduct(x, q), den |-> Norm(x) * Norm(q)]

\* SearchQuery validation
Accepted(num_results, min_score) ==
    /\ num_results >= NumResultsMin /\ num_results <= NumResultsMax
    /\ ScoreGE(min_score, Float(MinScoreMin)) /\ ScoreGE(Float(MinScoreMax), min_score)

\* the rows a Cypher query may return for ORDER BY score DESC LIMIT n over
\* the node set `rows`: any order of them that is descending in score (the
\* order of equal scores is not defined), cut to n
OrderByLimit(rows, q, n) ==
    LET c      == Cardinality(rows)
        score(i) == Cosine(kb[i].embedding, q)
        orders == {o \in [1..c -> rows] :
                      /\ \A a, b \in 1..c : a # b => o[a] # o[b]
                      /\ \A a \in 1..(c - 1) : ScoreGE(score(o[a]), score(o[a + 1]))}
    IN  {SubSeq(o, 1, Min(n, c)) : o \in orders}

\* a variant of the query without its WHERE clause
CypherRows_NoThreshold(q, num_results, min_score) ==
    OrderByLimit(1..Len(kb), q, num_results)

\* MATCH (c:Chunk) WITH c, cosine AS score WHERE score >= $min_score
\* ... ORDER BY score DESC LIMIT $num_results
CypherRows(q, num_results, min_score) ==
    OrderByLimit({i \in 1..Len(kb) : ScoreGE(Cosine(kb[i].embedding, q), min_score)},
                 q, num_results)

\* KnowledgeBaseService.search: one SearchResult per record
SearchResults(rows, q) ==
    [j \in 1..Len(rows) |->
        [text |-> kb[rows[j]].text, score |-> Cosine(kb[rows[j]].embedding, q),
         metadata |-> "{}", context |-> kb[rows[j]].context]]

\* store_chunks: the nodes are deleted and the chunks stored with ids 0, 1, ...
store_chunks(chunks) ==
    [i \in 1..Len(chunks) |->
        [id |-> i - 1, context |-> chunks[i].context, text |-> chunks[i].text,
         embedding |-> chunks[i].embedding]]

ApiInit ==
    /\ IndexIdle /\ ChunkerIdle /\ PipelineIdle /\ ReadersIdle /\ ApiIdle /\ ModulesIdle

\* process_knowledge_base with the chunks and embeddings made of the file;
\* without chunks it raises ValueError before anything is stored
ProcessKnowledgeBase(chunks) ==
    /\ kb' = IF chunks = <<>> THEN kb ELSE store_chunks(chunks)
    /\ UNCHANGED <<response, ivars, cvars, pvars, readers, mvars>>

\* POST /api/search
ApiSearch(q, num_results, min_score) ==
    /\ IF Accepted(num_results, min_score)
       THEN \E rows \in CypherRows(q, num_results, min_score) :
               response' = [status |-> 200, query |-> q, num_results |-> num_results,
                            min_score |-> min_score, results |-> SearchResults(rows, q)]
       ELSE response' = [status |-> 422, query |-> q, num_results |-> num_results,
                         min_score |-> min_score, results |-> <<>>]
    /\ UNCHANGED <<kb, ivars, cvars, pvars, readers, mvars>>

ApiNext ==
    \/ \E chunks \in KbBatches : ProcessKnowledgeBase(chunks)
    \/ \E q \in KbVectors, n \in NumResultsValues, m \in MinScoreValues : ApiSearch(q, n, m)

SpecApi == ApiInit /\ [][ApiNext]_vars

---------------------------------------------------------------------------
(* Concurrent callers of FAISSService.search on one service object.  A     *)
(* call is index.search, then one pass of the result loop per slot, then   *)
(* the return; the steps of different callers interleave in any order.     *)
(* add_chunks runs only while no search is in flight.                      *)
(*   readers[r]  the call of caller r: pc ("idle", "loop", "done",         *)
(*               "raised"), its query and k, the slots index.search gave,  *)
(*               the loop counter i and its local list `results` (out)     *)

Quiet == \A r \in Readers : readers[r].pc = "idle"

\* the result appended by the pass over slot i
LoopPass(s, slots, i) ==
    LET all == Results(s, SubSeq(slots, 1, i)) IN all[Len(all)]

ReadersInit ==
    /\ svc \in {FAISSService(d, t) : d \in Dims, t \in IndexTypes}
    /\ disk = [index |-> NoFile, store |-> NoFile]
    /\ saved = NoSave
    /\ last = Call("none", "none")
    /\ ChunkerIdle /\ PipelineIdle /\ ReadersIdle /\ ApiIdle /\ ModulesIdle

QuietAdd(chunks) == Quiet /\ AddChunks(chunks)

\* query_embedding.reshape(...) and self.index.search(query_embedding, k)
ReaderIndexSearch(r, q, k) ==
    /\ readers[r].pc = "idle"
    /\ readers' = [readers EXCEPT ![r] =
          IF Len(q) # svc.index.d
          THEN [ReaderIdle EXCEPT !.pc = "raised", !.q = q, !.k = k]
          ELSE [pc |-> "loop", q |-> q, k |-> k,
                slots |-> faiss_search(svc.index, q, k), i |-> 1, out |-> <<>>]]
    /\ UNCHANGED <<ivars, cvars, pvars, avars, mvars>>

\* a variant in which the result list is shared by the calls in flight
ReaderLoopPass_SharedResults(r) ==
    /\ readers[r].pc = "loop"
    /\ readers[r].i <= Len(readers[r].slots)
    /\ LET me == readers[r]
       IN  readers' =
             IF me.slots[me.i].idx = -1
             THEN [readers EXCEPT ![r].i = me.i + 1]
             ELSE IF me.slots[me.i].idx >= Len(svc.chunk_store)
             THEN [readers EXCEPT ![r].pc = "raised"]
             ELSE [x \in Readers |->
                     IF x = r
                     THEN [me EXCEPT !.i = me.i + 1,
                                     !.out = Append(me.out, LoopPass(svc, me.slots, me.i))]
                     ELSE IF readers[x].pc = "loop"
                     THEN [readers[x] EXCEPT
                             !.out = Append(readers[x].out, LoopPass(svc, me.slots, me.i))]
                     ELSE readers[x]]
    /\ UNCHANGED <<ivars, cvars, pvars, avars, mvars>>

\* one pass of the loop over zip(distances[0], indices[0])
ReaderLoopPass(r) ==
    /\ readers[r].pc = "loop"
    /\ readers[r].i <= Len(readers[r].slots)
    /\ LET me == readers[r]
       IN  readers' =
             IF me.slots[me.i].idx = -1
             THEN [readers EXCEPT ![r].i = me.i + 1]
             ELSE IF me.slots[me.i].idx >= Len(svc.chunk_store)
             THEN [readers EXCEPT ![r].pc = "raised"]
             ELSE [readers EXCEPT ![r].i = me.i + 1,
                                  ![r].out = Append(me.out, LoopPass(svc, me.slots, me.i))]
    /\ UNCHANGED <<ivars, cvars, pvars, avars, mvars>>

\* return results
ReaderReturn(r) ==
    /\ readers[r].pc = "loop"
    /\ readers[r].i > Len(readers[r].slots)
    /\ readers' = [readers EXCEPT ![r].pc = "done"]
    /\ UNCHANGED <<ivars, cvars, pvars, avars, mvars>>

\* the caller has its result, or its exception, and may call again
ReaderDone(r) ==
    /\ readers[r].pc \in {"done", "raised"}
    /\ readers' = [readers EXCEPT ![r] = ReaderIdle]
    /\ UNCHANGED <<ivars, cvars, pvars, avars, mvars>>

ReadersNext ==
    \/ \E chunks \in Batches : QuietAdd(chunks)
    \/ \E r \in Readers, q \in Vectors, k \in 1..MaxK : ReaderIndexSearch(r, q, k)
    \/ \E r \in Readers : ReaderLoopPass(r)
    \/ \E r \in Readers : ReaderReturn(r)
    \/ \E r \in Readers : ReaderDone(r)

SpecReaders == ReadersInit /\ [][ReadersNext]_vars

---------------------------------------------------------------------------
(* A service created with index_type "cosine" and filled by add_chunks,    *)
(* with embeddings that are not all of unit length.                        *)

AnyLengthVectors == Vectors \cup {<<2, 0>>}

AnyLengthChunks == Chunks \cup {[text |-> "d", metadata |-> NoKey, embedding |-> <<2, 0>>]}

AnyLengthBatches ==
    {<<>>} \cup {<<c>> : c \in AnyLengthChunks}
           \cup {<<c1, c2>> : c1 \in AnyLengthChunks, c2 \in AnyLengthChunks}

CosineInit ==
    /\ svc \in {FAISSService(d, "cosine") : d \in Dims}
    /\ disk = [index |-> NoFile, store |-> NoFile]
    /\ saved = NoSave
    /\ last = Call("none", "none")
    /\ ChunkerIdle /\ PipelineIdle /\ ReadersIdle /\ ApiIdle /\ ModulesIdle

CosineNext ==
    \/ \E chunks \in AnyLengthBatches : AddChunks(chunks)
    \/ \E q \in AnyLengthVectors, k \in 1..MaxK : Search(q, k)

SpecCosine == CosineInit /\ [][CosineNext]_vars

---------------------------------------------------------------------------
(* call_gemini_with_retry of the notebook generator                        *)
(* (src/paper-to-notebook/backend/app.py).                                 *)
(*   retry  one call: pc ("idle", "call": at the head of the for loop,     *)
(*          "sleep": in time.sleep, "returned", "raised"), the loop        *)
(*          variable attempt, the calls of call_gemini made so far with    *)
(*          what each did, the waits slept, last_error (<<>> is None) and  *)
(*          what the caller receives                                       *)
(* An error is the set of keywords its lower-cased message contains.       *)

MAX_RETRIES == 3
RETRY_DELAYS == <<5, 15, 30>>

InvalidKeyWords == {"api key not valid", "api_key_invalid", "invalid_argument"}
TransientWords == {"429", "rate", "500", "503", "overloaded", "unavailable"}

\* what one call of call_gemini does: it returns a text or raises an error
Returns(t) == [ok |-> TRUE, text |-> t, words |-> {}]
Raises(words) == [ok |-> FALSE, text |-> "", words |-> words]

CallResults ==
    {Returns("notebook")}
    \cup {Raises(w) : w \in {{"api key not valid"}, {"invalid_argument", "429"},
                             {"429", "rate"}, {"503", "unavailable"}, {"overloaded"}, {}}}

\* any(keyword in error_str for keyword in [...])
IsInvalidKey(words) == words \cap InvalidKeyWords # {}
IsTransient(words) == words \cap TransientWords # {}

\* a variant that always takes the first delay
Delay_First(attempt) == RETRY_DELAYS[1]

\* RETRY_DELAYS[min(attempt, len(RETRY_DELAYS) - 1)]
Delay(attempt) == RETRY_DELAYS[Min(attempt, Len(RETRY_DELAYS) - 1) + 1]

RetryInit ==
    /\ IndexIdle /\ ChunkerIdle /\ PipelineIdle /\ ReadersIdle /\ ApiIdle
    /\ ModulesIdle

\* call_gemini_with_retry is called
RetryStart ==
    /\ retry.pc \in {"idle", "returned", "raised"}
    /\ retry' = [RetryIdle EXCEPT !.pc = "call"]
    /\ UNCHANGED <<ivars, cvars, pvars, readers, avars, lb, lru, wm, stream>>

\* one pass of the for loop up to the return, the raise or the sleep
CallGemini(res) ==
    /\ retry.pc = "call"
    /\ retry.attempt < MAX_RETRIES
    /\ LET made == [retry EXCEPT !.calls = Append(retry.calls, res)]
       IN  retry' =
             IF res.ok
             THEN [made EXCEPT !.pc = "returned",
                               !.outcome = [kind |-> "return", text |-> res.text, error |-> {}]]
             ELSE IF IsInvalidKey(res.words)
             THEN [made EXCEPT !.pc = "raised",
                               !.outcome = [kind |-> "ValueError", text |-> "Invalid API key",
                                            error |-> {}]]
             ELSE IF IsTransient(res.words)
             THEN [made EXCEPT !.pc = "sleep", !.last_error = <<res.words>>]
             ELSE [made EXCEPT !.pc = "raised",
                               !.outcome = [kind |-> "reraise", text |-> "", error |-> res.words]]
    /\ UNCHANGED <<ivars, cvars, pvars, readers, avars, lb, lru, wm, stream>>

\* time.sleep(wait) returns and the loop goes on
Sleep ==
    /\ retry.pc = "sleep"
    /\ retry' = [retry EXCEPT !.pc = "call",
                              !.waits = Append(retry.waits, Delay(retry.attempt)),
                              !.attempt = retry.attempt + 1]
    /\ UNCHANGED <<ivars, cvars, pvars, readers, avars, lb, lru, wm, stream>>

\* range(MAX_RETRIES) is used up: raise RuntimeError with the last error
Exhausted ==
    /\ retry.pc = "call"
    /\ retry.attempt >= MAX_RETRIES
    /\ retry' = [retry EXCEPT !.pc = "raised",
                              !.outcome = [kind |-> "RuntimeError", text |-> "",
                                           error |-> retry.last_error[1]]]
    /\ UNCHANGED <<ivars, cvars, pvars, readers, avars, lb, lru, wm, stream>>

RetryNext ==
    \/ RetryStart
    \/ \E res \in CallResults : CallGemini(res)
    \/ Sleep
    \/ Exhausted

SpecRetry == RetryInit /\ [][RetryNext]_vars

---------------------------------------------------------------------------
(* RoundRobinLoadBalancer of the load-balancing module                     *)
(* (src/module12/module12_load_balancing.py): send_request is              *)
(* get_next_endpoint, then chat_with_endpoint on the index returned, which *)
(* marks that endpoint unhealthy when the request fails.                   *)

\* len(ENDPOINTS)
NumEndpoints == Len(BalancerIdle.status)

BalancerInit ==
    /\ IndexIdle /\ ChunkerIdle /\ PipelineIdle /\ ReadersIdle /\ ApiIdle
    /\ ModulesIdle

\* entry of get_next_endpoint: start_index = self.current_index
GetNextEndpoint ==
    /\ lb.pc = "idle"
    /\ lb' = [lb EXCEPT !.pc = "loop", !.start_index = lb.current_index, !.passes = 0,
                        !.entry = lb.status, !.reset = FALSE]
    /\ UNCHANGED <<ivars, cvars, pvars, readers, avars, retry, lru, wm, stream>>

\* one pass of the while loop
EndpointPass ==
    /\ lb.pc = "loop"
    /\ LET checked == lb.current_index
           next    == (lb.current_index + 1) % NumEndpoints
           moved   == [lb EXCEPT !.current_index = next, !.passes = lb.passes + 1]
       IN  lb' = IF lb.status[checked + 1] = "healthy"
                 THEN [moved EXCEPT !.pc = "returned", !.returned = next]
                 ELSE IF next = lb.start_index
                 THEN [moved EXCEPT !.pc = "returned", !.returned = next, !.reset = TRUE,
                                    !.status = [i \in 1..NumEndpoints |-> "healthy"]]
                 ELSE moved
    /\ UNCHANGED <<ivars, cvars, pvars, readers, avars, retry, lru, wm, stream>>

\* chat_with_endpoint(prompt, endpoint_index): the request succeeds, or it
\* fails and the endpoint is marked unhealthy
ChatWithEndpoint(ok) ==
    /\ lb.pc = "returned"
    /\ lb' = [lb EXCEPT !.pc = "idle",
                        !.status[lb.returned + 1] =
                            IF ok THEN lb.status[lb.returned + 1] ELSE "unhealthy"]
    /\ UNCHANGED <<ivars, cvars, pvars, readers, avars, retry, lru, wm, stream>>

\* between two requests of the balancer another user of the shared ENDPOINTS
\* list sets the status of an endpoint: a request of another balancer that
\* fails, a recovery, or the failure simulation
SetStatus(i, st) ==
    /\ lb.pc = "idle"
    /\ lb' = [lb EXCEPT !.status[i] = st]
    /\ UNCHANGED <<ivars, cvars, pvars, readers, avars, retry, lru, wm, stream>>

BalancerNext ==
    \/ GetNextEndpoint
    \/ EndpointPass
    \/ \E ok \in BOOLEAN : ChatWithEndpoint(ok)
    \/ \E i \in 1..NumEndpoints, st \in {"healthy", "unhealthy"} : SetStatus(i, st)

SpecBalancer == BalancerInit /\ [][BalancerNext]_vars

---------------------------------------------------------------------------
(* LRUCache of the caching module (src/module12/module12.py)               *)

Prompts == {"p", "q", "r"}
Models == {"m"}
Responses == {"x", "y"}

\* get_key: the digest of f"{prompt}:{model}", one key per such string
get_key(prompt, model) == <<prompt, ":", model>>

CacheKeys(cache) == {cache[i].key : i \in 1..Len(cache)}
CacheValue(cache, key) == (CHOOSE i \in 1..Len(cache) : cache[i].key = key)

\* OrderedDict.move_to_end(key)
MoveToEnd(cache, key) ==
    SelectSeq(cache, LAMBDA e : e.key # key) \o SelectSeq(cache, LAMBDA e : e.key = key)

\* cache[key] = response: an existing key keeps its place, a new one goes last
SetItem(cache, key, resp) ==
    IF key \in CacheKeys(cache)
    THEN [i \in 1..Len(cache) |->
            IF cache[i].key = key THEN [key |-> key, value |-> resp] ELSE cache[i]]
    ELSE Append(cache, [key |-> key, value |-> resp])

\* OrderedDict.popitem(last=False)
PopOldest(cache) == Tail(cache)

\* the key becomes the one used last
Touch(used, key) == SelectSeq(used, LAMBDA k : k # key) \o <<key>>

LruInit ==
    /\ IndexIdle /\ ChunkerIdle /\ PipelineIdle /\ ReadersIdle /\ ApiIdle
    /\ retry = RetryIdle /\ lb = BalancerIdle /\ wm = WindowMemory(10, 4000)
    /\ stream = StreamIdle
    /\ lru \in {LRUCache(c) : c \in 0..MaxCapacity}

\* a variant of get that leaves the key where it is
LruGet_NoMove(prompt, model) ==
    LET key == get_key(prompt, model)
    IN  /\ lru.hits + lru.misses < MaxGets
        /\ lru' = IF key \in CacheKeys(lru.cache)
                  THEN [lru EXCEPT !.hits = lru.hits + 1,
                                   !.used = Touch(lru.used, key),
                                   !.last = [op |-> "get", key |-> key, value |-> "",
                                             result |-> <<lru.cache[CacheValue(lru.cache, key)].value>>]]
                  ELSE [lru EXCEPT !.misses = lru.misses + 1,
                                   !.last = [op |-> "get", key |-> key, value |-> "",
                                             result |-> <<>>]]
        /\ UNCHANGED <<ivars, cvars, pvars, readers, avars, retry, lb, wm, stream>>

LruGet(prompt, model) ==
    LET key == get_key(prompt, model)
    IN  /\ lru.hits + lru.misses < MaxGets
        /\ lru' = IF key \in CacheKeys(lru.cache)
                  THEN LET moved == MoveToEnd(lru.cache, key)
                       IN  [lru EXCEPT !.cache = moved,
                                       !.hits = lru.hits + 1,
                                       !.used = Touch(lru.used, key),
                                       !.last = [op |-> "get", key |-> key, value |-> "",
                                                 result |-> <<moved[CacheValue(moved, key)].value>>]]
                  ELSE [lru EXCEPT !.misses = lru.misses + 1,
                                   !.last = [op |-> "get", key |-> key, value |-> "",
                                             result |-> <<>>]]
        /\ UNCHANGED <<ivars, cvars, pvars, readers, avars, retry, lb, wm, stream>>

LruSet(prompt, model, resp) ==
    LET key    == get_key(prompt, model)
        moved  == IF key \in CacheKeys(lru.cache) THEN MoveToEnd(lru.cache, key) ELSE lru.cache
        added  == SetItem(moved, key, resp)
    IN  /\ lru' = [lru EXCEPT !.cache = IF Len(added) > lru.capacity
                                        THEN PopOldest(added) ELSE added,
                              !.used = Touch(lru.used, key),
                              !.last = [op |-> "set", key |-> key, value |-> resp,
                                        result |-> <<>>]]
        /\ UNCHANGED <<ivars, cvars, pvars, readers, avars, retry, lb, wm, stream>>

LruNext ==
    \/ \E p \in Prompts, m \in Models : LruGet(p, m)
    \/ \E p \in Prompts, m \in Models, r \in Responses : LruSet(p, m, r)

SpecLru == LruInit /\ [][LruNext]_vars

---------------------------------------------------------------------------
(* WindowMemory of the conversation-memory module (src/module6.py)         *)

Roles == {"user", "assistant"}
Contents == {"hi", "what is a sliding window?"}

\* the window sizes and token limits given to the constructor; the system
\* message alone counts 9 tokens
WindowSizes == 0..2
TokenLimits == {12, 4000}

\* TokenCounter: about 4 characters per token, and 2 tokens for the role
estimate_tokens(content) == Len(content) \div 4
count_message_tokens(message) == 2 + estimate_tokens(message.content)
count_conversation_tokens(messages) ==
    SumTo([i \in 1..Len(messages) |-> count_message_tokens(messages[i])], Len(messages))

\* messages[-n:]: the last n entries, and for n = 0 the whole list
LastN(messages, n) == Slice(messages, -n, Len(messages))

\* _trim_to_window
_trim_to_window(messages, window_size) ==
    IF Len(messages) > window_size + 1
    THEN <<messages[1]>> \o LastN(messages, window_size)
    ELSE messages

\* _trim_to_tokens: the oldest message after the first is popped while the
\* count is over the limit and more than two messages are left
RECURSIVE _trim_to_tokens(_, _)
_trim_to_tokens(messages, max_tokens) ==
    IF count_conversation_tokens(messages) > max_tokens /\ Len(messages) > 2
    THEN _trim_to_tokens(<<messages[1]>> \o SubSeq(messages, 3, Len(messages)), max_tokens)
    ELSE messages

WindowInit ==
    /\ IndexIdle /\ ChunkerIdle /\ PipelineIdle /\ ReadersIdle /\ ApiIdle
    /\ retry = RetryIdle /\ lb = BalancerIdle /\ lru = LRUCache(1)
    /\ stream = StreamIdle
    /\ wm \in {WindowMemory(w, t) : w \in WindowSizes, t \in TokenLimits}

add_message(role, content) ==
    LET message == [role |-> role, content |-> content]
    IN  /\ Len(wm.full_history) < MaxMessages
        /\ wm' = [wm EXCEPT
                    !.full_history = Append(wm.full_history, message),
                    !.messages = _trim_to_tokens(
                                     _trim_to_window(Append(wm.messages, message), wm.window_size),
                                     wm.max_tokens)]
        /\ UNCHANGED <<ivars, cvars, pvars, readers, avars, retry, lb, lru, stream>>

WindowNext == \E role \in Roles, content \in Contents : add_message(role, content)

SpecWindow == WindowInit /\ [][WindowNext]_vars

---------------------------------------------------------------------------
(* /api/generate: run_pipeline in an executor thread hands its progress to *)
(* the event loop, which puts it on progress_queue; event_stream takes it  *)
(* from the queue and yields it to the client.                             *)

\* the tuples put on progress_queue
Progress(step, type, draft_bytes) ==
    [kind |-> "progress", step |-> step, type |-> type, draft_bytes |-> draft_bytes]
Thinking == [kind |-> "thinking", step |-> 0, type |-> "", draft_bytes |-> FALSE]

\* run_pipeline as the sequence of its _notify calls and its model calls
Notify(step, type, draft_bytes) == [op |-> "notify", event |-> Progress(step, type, draft_bytes)]
Gemini == [op |-> "gemini", event |-> Thinking]

run_pipeline ==
    << Notify(1, "start", FALSE), Gemini, Notify(1, "analysis", FALSE),
       Notify(2, "start", FALSE), Gemini, Notify(2, "design", FALSE),
       Notify(3, "start", FALSE), Gemini, Notify(3, "cells_generated", TRUE),
       Notify(4, "start", FALSE), Gemini, Notify(4, "complete", FALSE) >>

\* what the thread hands to the loop: a put of an event, or the result of the
\* executor future
Put(event) == [kind |-> "put", event |-> event, result |-> ""]
Done(res) == [kind |-> "done", event |-> Thinking, result |-> res]

\* what event_stream yields
Sse(event, step, type) == [event |-> event, step |-> step, type |-> type]

StreamInit ==
    /\ IndexIdle /\ ChunkerIdle /\ PipelineIdle /\ ReadersIdle /\ ApiIdle
    /\ ModulesIdle

\* event_stream up to the first test of the while loop: the task is created
Generate ==
    /\ stream.pc = "idle"
    /\ stream' = [stream EXCEPT !.pos = 1, !.task = "running", !.pc = "check"]
    /\ UNCHANGED <<ivars, cvars, pvars, readers, avars, retry, lb, lru, wm>>

\* the thread calls _notify: on_progress schedules the put on the loop
OnProgress ==
    /\ stream.task = "running"
    /\ stream.pos \in 1..Len(run_pipeline)
    /\ run_pipeline[stream.pos].op = "notify"
    /\ LET event == run_pipeline[stream.pos].event
       IN  stream' = [stream EXCEPT !.pos = stream.pos + 1,
                                    !.emitted = Append(stream.emitted, event),
                                    !.callbacks = Append(stream.callbacks, Put(event))]
    /\ UNCHANGED <<ivars, cvars, pvars, readers, avars, retry, lb, lru, wm>>

\* the model streams a thinking text: on_thinking schedules the put
OnThinking ==
    /\ stream.pos \in 1..Len(run_pipeline)
    /\ run_pipeline[stream.pos].op = "gemini"
    /\ stream.thinking < MaxThinking
    /\ stream' = [stream EXCEPT !.thinking = stream.thinking + 1,
                                !.callbacks = Append(stream.callbacks, Put(Thinking))]
    /\ UNCHANGED <<ivars, cvars, pvars, readers, avars, retry, lb, lru, wm>>

\* call_gemini_with_retry and parse_llm_json return
GeminiReturns ==
    /\ stream.pos \in 1..Len(run_pipeline)
    /\ run_pipeline[stream.pos].op = "gemini"
    /\ stream' = [stream EXCEPT !.pos = stream.pos + 1]
    /\ UNCHANGED <<ivars, cvars, pvars, readers, avars, retry, lb, lru, wm>>

\* call_gemini_with_retry or parse_llm_json raises: the thread ends and the
\* executor hands the exception to the loop
GeminiRaises ==
    /\ stream.pos \in 1..Len(run_pipeline)
    /\ run_pipeline[stream.pos].op = "gemini"
    /\ stream' = [stream EXCEPT !.pos = Len(run_pipeline) + 2,
                                !.callbacks = Append(stream.callbacks, Done("raised"))]
    /\ UNCHANGED <<ivars, cvars, pvars, readers, avars, retry, lb, lru, wm>>

\* run_pipeline returns the notebook bytes
PipelineReturns ==
    /\ stream.pos = Len(run_pipeline) + 1
    /\ stream' = [stream EXCEPT !.pos = Len(run_pipeline) + 2,
                                !.callbacks = Append(stream.callbacks, Done("returned"))]
    /\ UNCHANGED <<ivars, cvars, pvars, readers, avars, retry, lb, lru, wm>>

\* the loop runs what the thread scheduled, in the order it was scheduled:
\* a put lands on the queue, the result makes the task done
RunCallback ==
    /\ stream.callbacks # <<>>
    /\ LET cb == Head(stream.callbacks)
           rest == [stream EXCEPT !.callbacks = Tail(stream.callbacks)]
       IN  stream' =
             IF cb.kind = "put"
             THEN [rest EXCEPT !.progress_queue = Append(stream.progress_queue, cb.event)]
             ELSE [rest EXCEPT !.task = cb.result]
    /\ UNCHANGED <<ivars, cvars, pvars, readers, avars, retry, lb, lru, wm>>

\* task.done()
TaskDone == stream.task \in {"returned", "raised"}

\* while not task.done()
WhileNotDone ==
    /\ stream.pc = "check"
    /\ stream' = [stream EXCEPT !.pc = IF TaskDone THEN "drain" ELSE "get"]
    /\ UNCHANGED <<ivars, cvars, pvars, readers, avars, retry, lb, lru, wm>>

\* what the main loop yields for an event
MainChunks(event) ==
    IF event.kind = "thinking" THEN <<Sse("thinking", 0, "")>>
    ELSE IF event.draft_bytes
    THEN <<Sse("progress", event.step, event.type), Sse("draft_ready", 0, "")>>
    ELSE <<Sse("progress", event.step, event.type)>>

\* what the drain loop yields for an event
DrainChunks(event) ==
    IF event.kind = "thinking" THEN <<>>
    ELSE <<Sse("progress", event.step, event.type)>>

\* wait_for(progress_queue.get()) returns an event: the draft of an event
\* with draft_bytes is written, then the generator is at its first yield
QueueGet ==
    /\ stream.pc = "get"
    /\ stream.progress_queue # <<>>
    /\ LET event == Head(stream.progress_queue)
       IN  stream' = [stream EXCEPT !.progress_queue = Tail(stream.progress_queue),
                                    !.draft = stream.draft \/ event.draft_bytes,
                                    !.pending = MainChunks(event),
                                    !.pc = "yield", !.back = "check"]
    /\ UNCHANGED <<ivars, cvars, pvars, readers, avars, retry, lb, lru, wm>>

\* wait_for times out on the empty queue: the keepalive comment is yielded
Keepalive ==
    /\ stream.pc = "get"
    /\ stream.progress_queue = <<>>
    /\ stream' = [stream EXCEPT !.pc = "check",
                                !.keepalives = Min(stream.keepalives + 1, MaxKeepalives)]
    /\ UNCHANGED <<ivars, cvars, pvars, readers, avars, retry, lb, lru, wm>>

\* the client takes the chunk the generator is suspended at
Yield ==
    /\ stream.pc = "yield"
    /\ stream' = [stream EXCEPT !.sent = Append(stream.sent, Head(stream.pending)),
                                !.pending = Tail(stream.pending),
                                !.pc = IF Len(stream.pending) = 1 THEN stream.back ELSE "yield"]
    /\ UNCHANGED <<ivars, cvars, pvars, readers, avars, retry, lb, lru, wm>>

\* one pass of the drain loop, or its end and task.result(): the output file
\* is written and complete is yielded, or error is
Drain ==
    /\ stream.pc = "drain"
    /\ stream' =
         IF stream.progress_queue # <<>>
         THEN LET event == Head(stream.progress_queue)
                  chunks == DrainChunks(event)
              IN  [stream EXCEPT !.progress_queue = Tail(stream.progress_queue),
                                 !.pending = chunks,
                                 !.pc = IF chunks = <<>> THEN "drain" ELSE "yield",
                                 !.back = "drain"]
         ELSE IF stream.task = "returned"
         THEN [stream EXCEPT !.output = TRUE, !.pending = <<Sse("complete", 0, "")>>,
                             !.pc = "yield", !.back = "closed"]
         ELSE [stream EXCEPT !.pending = <<Sse("error", 0, "")>>,
                             !.pc = "yield", !.back = "closed"]
    /\ UNCHANGED <<ivars, cvars, pvars, readers, avars, retry, lb, lru, wm>>

StreamNext ==
    \/ Generate
    \/ OnProgress
    \/ OnThinking
    \/ GeminiReturns
    \/ GeminiRaises
    \/ PipelineReturns
    \/ RunCallback
    \/ WhileNotDone
    \/ QueueGet
    \/ Keepalive
    \/ Yield
    \/ Drain

SpecStream == StreamInit /\ [][StreamNext]_vars

---------------------------------------------------------------------------
(* Properties of the index                                                 *)

Queries == Vectors
Ks == 1..MaxK

\* the service that made the last complete save, as it was at that save
SavedService ==
    [dimension |-> Content(disk.index).d, index_type |-> saved,
     index |-> Content(disk.index), chunk_store |-> Content(disk.store)]

\* C1: after a populated index was saved, a new FAISSService that loads the
\* directory answers every search(q, k) exactly as the saving service did
C1_LoadReproducesSearch ==
    (/\ last.op = "load_index" /\ last.err = "none" /\ last.fresh
     /\ saved # NoSave
     /\ Content(disk.store) # <<>>)
    => \A q \in Queries, k \in Ks : search(svc, q, k) = search(SavedService, q, k)

\* C2: chunk_store is as long as the similarity structure holds vectors, and
\* the entry at list place i has 'index' i (counted from 0)
C2_IndexInvariant ==
    /\ Len(svc.chunk_store) = ntotal(svc.index)
    /\ \A i \in 1..Len(svc.chunk_store) : svc.chunk_store[i].index = i - 1

C2_Witness ==
    /\ last.op = "add_chunks" /\ last.err = "none"
    /\ Len(svc.chunk_store) = MaxStore
    /\ disk.store # NoFile /\ Content(disk.store) # <<>>
    /\ Len(Content(disk.store)) < Len(svc.chunk_store)

Ordered(out) == \A i \in 1..(Len(out) - 1) : ScoreGE(out[i].score, out[i + 1].score)
Ranked(out) == \A i \in 1..Len(out) : out[i].rank = i

\* C6: for index_type 'l2' and 'cosine', every search returns its results by
\* non-increasing score, with rank i+1 at list place i
C6_RankMonotone ==
    svc.index_type \in {"l2", "cosine"}
    => \A q \in Queries, k \in Ks :
          LET r == search(svc, q, k)
          IN  r.err = "none" => Ordered(r.out) /\ Ranked(r.out)

\* C7: search(q, k) on n stored entries raises nothing and returns min(k, n)
\* results, the unfilled slots left out, each with the text and metadata of the
\* chunk_store entry at the id the similarity structure matched
C7_SentinelOmitted ==
    \A q \in Queries, k \in Ks :
        Len(q) = svc.index.d =>
            LET r == search(svc, q, k)
                n == ntotal(svc.index)
            IN  /\ r.err = "none"
                /\ Len(r.out) = Min(k, n)
                /\ \A j \in 1..Len(r.out) :
                      /\ r.slots[j].idx # -1
                      /\ r.out[j].text = svc.chunk_store[r.slots[j].idx + 1].text
                      /\ r.out[j].metadata = svc.chunk_store[r.slots[j].idx + 1].metadata
                /\ \A j \in (Len(r.out) + 1)..k : r.slots[j].idx = -1

C7_Witness ==
    /\ last.op = "search" /\ last.err = "none"
    /\ last.k > ntotal(svc.index)
    /\ ntotal(svc.index) = MaxStore
    /\ svc.chunk_store[1].text # svc.chunk_store[2].text

\* C8: a load_index that raises leaves the service as it was
C8_FailedLoadKeepsService ==
    [][(last'.op = "load_index" /\ last'.err # "none") => svc' = svc]_vars

\* C9: add_chunks of a batch with a vector whose length is not the index's
\* dimension raises, and neither the index nor chunk_store gains an entry
C9_MismatchRejected ==
    [][\A chunks \in Batches :
          (AddChunks(chunks) /\ Mismatch(svc.index, chunks))
          => (last'.err # "none" /\ svc' = svc)]_vars

C9_Witness ==
    /\ last.op = "add_chunks" /\ last.err = "AssertionError"
    /\ svc.chunk_store # <<>>

\* C10: a successful add_chunks of n chunks appends n entries, numbered from the
\* former length and above every earlier number, and changes no earlier entry
C10_AppendOnly ==
    [][\A chunks \in Batches :
          (AddChunks(chunks) /\ last'.err = "none")
          => LET old == svc.chunk_store
                 new == svc'.chunk_store
             IN  /\ Len(new) = Len(old) + Len(chunks)
                 /\ SubSeq(new, 1, Len(old)) = old
                 /\ \A i \in 1..Len(chunks) :
                       /\ new[Len(old) + i].text = chunks[i].text
                       /\ new[Len(old) + i].metadata = GetMetadata(chunks[i])
                       /\ new[Len(old) + i].index = Len(old) + (i - 1)
                       /\ \A j \in 1..Len(old) : old[j].index < new[Len(old) + i].index
                 /\ svc'.index.xb = svc.index.xb \o [i \in 1..Len(chunks) |-> chunks[i].embedding]
         ]_vars

C10_Witness ==
    /\ last.op = "add_chunks" /\ last.err = "none"
    /\ Len(svc.chunk_store) = 2
    /\ svc.chunk_store[1].text = svc.chunk_store[2].text
    /\ svc.index.xb[1] = svc.index.xb[2]
    /\ svc.chunk_store[1].index < svc.chunk_store[2].index

---------------------------------------------------------------------------
(* Properties of the chunker                                               *)

\* C3: every chunk of the list _normalize_chunk_sizes returns has
\* min_chunk_size <= len(text) <= max_chunk_size, but for an undersized first
\* chunk
C3_SizeInvariant ==
    pc = "done" =>
        \A i \in 1..Len(result) :
            /\ Len(result[i].text) <= config.max_chunk_size
            /\ (Len(result[i].text) >= config.min_chunk_size \/ i = 1)

\* C4: _create_structured_chunks raises no exception
C4_NeverRaises == pc # "raised"

\* C5: each pass of the while loop of _create_basic_chunks moves start forward
C5_StartAdvances ==
    [][(pc = "basic" /\ pc' = "basic" /\ caller' = caller /\ btext' = btext /\ ni' = ni)
       => start' > start]_vars

---------------------------------------------------------------------------
(* Properties of the passages                                              *)

\* the chunk lists handed on in the call: the list _create_basic_chunks
\* returns once its loop has ended, the list _normalize_chunk_sizes is given
\* (heading mode's or basic mode's), its normalized_chunks, and the list
\* returned to the caller
BasicReturned == \/ pc = "basic" /\ start >= Len(btext)
                 \/ pc \in {"normalize", "done"}

Emitted == {raw, normalized, result} \cup (IF BasicReturned THEN {bchunks} ELSE {})

WellFormed(c) ==
    /\ Strip(c.text) # <<>>
    /\ c.start_idx >= 0
    /\ c.start_idx < c.end_idx

\* C11: every passage the chunker emits, in heading mode, in basic mode and
\* after normalization, has a non-empty trimmed text and offsets with
\* 0 <= start_idx < end_idx; a span whose trimmed text is empty is not emitted.
C11_PassagesWellFormed ==
    \A list \in Emitted : \A i \in 1..Len(list) : WellFormed(list[i])

\* a call in heading mode has returned passages, and a heading whose span
\* trims to nothing has no passage
C11_Witness ==
    /\ pc = "done" /\ result # <<>>
    /\ config.split_on_headings /\ headers # <<>>
    /\ Len(raw) < Len(headers)

HeaderNamed(name) == CHOOSE h \in {headers[i] : i \in 1..Len(headers)} : h.text = name

HeadingDerived(c) == "hierarchy" \in c.metadata.keys

HierarchyOrdered(c) ==
    LET own  == HeaderNamed(c.metadata.header)
        path == [i \in 1..Len(c.metadata.hierarchy) |-> HeaderNamed(c.metadata.hierarchy[i])]
    IN  /\ \A i \in 1..(Len(path) - 1) : path[i].level < path[i + 1].level
        /\ \A i \in 1..Len(path) : /\ path[i].level < own.level
                                    /\ path[i].position < own.position

\* C12: in the hierarchy of a heading-derived chunk the heading levels increase
\* strictly from the root to the immediate parent, every one is below the
\* chunk's own heading level, and every heading named stands before the
\* chunk's own heading in the document.
C12_HierarchyOrdered ==
    \A list \in Emitted : \A i \in 1..Len(list) :
        HeadingDerived(list[i]) => HierarchyOrdered(list[i])

\* a passage is returned under two ancestors, and the headings were not given
\* in document order
C12_Witness ==
    /\ pc = "done"
    /\ \E i \in 1..Len(result) :
          /\ HeadingDerived(result[i])
          /\ Len(result[i].metadata.hierarchy) = 2
    /\ headers # SortedHeaders(headers)

HeadingMode == config.split_on_headings /\ headers # <<>>

Positions == {headers[i].position : i \in 1..Len(headers)}

\* where the span of a heading at position p ends: at the next heading
\* position, or at the end of the text
NextPosition(p) ==
    LET later == {q \in Positions : q > p}
    IN  IF later = {} THEN Len(text) ELSE CHOOSE q \in later : \A r \in later : q <= r

SpanAt(p) == Strip(Slice(text, p, NextPosition(p)))

SpansFit == \A p \in Positions :
                \/ SpanAt(p) = <<>>
                \/ /\ Len(SpanAt(p)) >= config.min_chunk_size
                   /\ Len(SpanAt(p)) <= config.max_chunk_size

\* C13: in heading mode, when every heading span that is not empty has a
\* trimmed length within [min_chunk_size, max_chunk_size], the call returns
\* exactly one chunk per heading with a non-empty span, in increasing order of
\* heading position, each holding the trimmed text from its heading's position
\* to the next heading's position (the end of the text for the last).
C13_OneChunkPerHeading ==
    (HeadingMode /\ SpansFit) =>
        /\ pc \in {"idle", "normalize", "done"}
        /\ pc = "done" =>
              /\ Len(result) = Cardinality({p \in Positions : SpanAt(p) # <<>>})
              /\ \A k \in 1..Len(result) :
                    /\ result[k].start_idx \in Positions
                    /\ result[k].text = SpanAt(result[k].start_idx)
                    /\ result[k].end_idx = NextPosition(result[k].start_idx)
                    /\ \E i \in 1..Len(headers) :
                          /\ headers[i].text = result[k].metadata.header
                          /\ headers[i].position = result[k].start_idx
              /\ \A k \in 1..(Len(result) - 1) :
                    result[k].start_idx < result[k + 1].start_idx

\* two headings given last-first, each returned as its own chunk
C13_Witness ==
    /\ pc = "done" /\ HeadingMode /\ SpansFit
    /\ Len(result) = 2
    /\ headers # SortedHeaders(headers)

BasicOnly(c) == c.metadata.keys = {"type"} /\ c.metadata.type = "basic_chunk"

\* C14: without headers, or with split_on_headings false, the call falls back
\* to basic chunking: every chunk has metadata type 'basic_chunk' and no
\* header, level or hierarchy key; with split_on_headings true and headers
\* given, the initial split is the heading split.
C14_FallbackToBasic ==
    /\ ~HeadingMode =>
          /\ pc # "idle" => caller = "structured"
          /\ \A list \in {bchunks, raw, normalized, result} :
                \A i \in 1..Len(list) : BasicOnly(list[i])
    /\ HeadingMode =>
          /\ caller # "structured"
          /\ \A i \in 1..Len(raw) :
                raw[i].metadata.keys = {"header", "level", "hierarchy"}

\* headers are given, split_on_headings is false, and passages are returned
C14_Witness ==
    /\ pc = "done" /\ result # <<>>
    /\ headers # <<>> /\ ~config.split_on_headings

---------------------------------------------------------------------------
(* Properties of the pipeline                                              *)

\* the chunker has returned an empty list and process_file has handed on
ZeroChunks == pc = "done" /\ result = <<>> /\ stage # "process_file"

\* C15: when the ingestion of a document produces zero chunks, the caller of
\* the pipeline receives an explicit 'no content produced' outcome, not an
\* ordinary result with an empty chunk list or an empty index.
C15_NoContentSignalled ==
    ZeroChunks => (stage = "failed" /\ outcome = "NoContent")

\* C18: generate_embeddings returns as many passages as it was given, in the
\* same order, each with its text, offsets and metadata unchanged and with
\* the embedding generate_embedding gives for its text alone.
C18_EmbeddingsAligned ==
    stage = "embedded" =>
        /\ Len(embedded) = Len(result)
        /\ \A i \in 1..Len(embedded) :
              /\ embedded[i].text = result[i].text
              /\ embedded[i].start_idx = result[i].start_idx
              /\ embedded[i].end_idx = result[i].end_idx
              /\ embedded[i].metadata = result[i].metadata
              /\ embedded[i].embedding = generate_embedding(result[i].text)

\* passages with different embeddings have been embedded
C18_Witness ==
    /\ stage = "embedded"
    /\ \E i, j \in 1..Len(embedded) : embedded[i].embedding # embedded[j].embedding

---------------------------------------------------------------------------
(* Properties of the query API                                             *)

\* C16: /api/search accepts num_results only in 1..10 and min_score only in
\* 0..1; an accepted query gets at most num_results results, in descending
\* order of score, each with a score of at least min_score.
C16_QueryContract ==
    LET n == response.num_results
        m == response.min_score
        inRange == n \in 1..10 /\ m.num >= 0 /\ m.num <= m.den
    IN  /\ response.status = 200 =>
              /\ inRange
              /\ Len(response.results) <= n
              /\ Ordered(response.results)
              /\ \A j \in 1..Len(response.results) :
                    response.results[j].score.num * m.den >= m.num * response.results[j].score.den
        /\ response.status = 422 => ~inRange

\* a query answered with exactly num_results results while the knowledge base
\* holds more chunks, one of them below the threshold
C16_Witness ==
    /\ response.status = 200
    /\ Len(response.results) = response.num_results
    /\ Len(kb) > response.num_results
    /\ \E i \in 1..Len(kb) :
          ~ScoreGE(Cosine(kb[i].embedding, response.query), response.min_score)

---------------------------------------------------------------------------
(* Properties of concurrent searches                                       *)

\* C17: search leaves the similarity structure and chunk_store as they are,
\* and with no add_chunks or load_index in flight every one of the search
\* calls interleaved in any order returns what it would return run alone on
\* the same index.
C17_ReadsIndependent ==
    [][\A r \in Readers :
          readers'[r] # readers[r] =>
              /\ svc' = svc
              /\ readers'[r].pc = "done" /\ readers[r].pc # "done" =>
                    /\ search(svc, readers[r].q, readers[r].k).err = "none"
                    /\ readers'[r].out = search(svc, readers[r].q, readers[r].k).out]_vars

\* a call returns results while the other caller is inside its own loop,
\* with results of its own already collected
C17_Witness ==
    \E r, x \in Readers :
        /\ r # x
        /\ readers[r].pc = "done" /\ readers[r].out # <<>>
        /\ readers[x].pc = "loop" /\ readers[x].out # <<>>
        /\ readers[x].q # readers[r].q

---------------------------------------------------------------------------
(* Properties of the cosine metric                                         *)

\* the entries are a set of chunks: no chunk was added twice
DistinctChunks ==
    \A i, j \in 1..Len(svc.chunk_store) :
        i # j => svc.chunk_store[i].text # svc.chunk_store[j].text

C20_CutAtBreakOrSize ==
    [][(pc = "basic" /\ start < Len(btext) /\ start >= 0
          /\ start + config.chunk_size < Len(btext)
          /\ <<pc, start, bchunks>>' # <<pc, start, bchunks>>)
       => LET end0    == start + config.chunk_size
              marked  == {p \in start..(end0 - 1) : btext[p + 1] \in {".", "!", "?", "\n"}}
              cut     == IF marked = {} THEN end0
                         ELSE (CHOOSE p \in marked : \A o \in marked : o <= p) + 1
          IN  /\ pc' = "basic"
              /\ start' = cut - config.chunk_overlap
              /\ \/ bchunks' = bchunks
                 \/ /\ Len(bchunks') = Len(bchunks) + 1
                    /\ bchunks'[Len(bchunks')].start_idx = start
                    /\ bchunks'[Len(bchunks')].end_idx = cut]_vars

---------------------------------------------------------------------------
(* Properties of the basic-mode windows                                    *)

\* the source span of a chunk of _create_basic_chunks' text
Span(c) == Slice(btext, c.start_idx, c.end_idx)

\* C21: of two consecutive basic-mode chunks the second one's span starts at
\* the first one's end_idx - chunk_overlap, the last chunk_overlap characters
\* of the first span are the first characters of the second, and the start
\* offset grows from the one to the next, by at most
\* chunk_size - chunk_overlap.
C21_OverlapSpans ==
    \A i \in 1..(Len(bchunks) - 1) :
        LET a  == bchunks[i]
            b  == bchunks[i + 1]
            ov == config.chunk_overlap
        IN  /\ b.start_idx = a.end_idx - ov
            /\ Len(Span(a)) >= ov /\ Len(Span(b)) >= ov
            /\ SubSeq(Span(a), Len(Span(a)) - ov + 1, Len(Span(a))) = SubSeq(Span(b), 1, ov)
            /\ b.start_idx > a.start_idx
            /\ b.start_idx - a.start_idx <= config.chunk_size - ov

---------------------------------------------------------------------------
(* Properties of normalization                                             *)

\* C22: a pass of the normalization loop over a chunk that is not oversized
\* merges it into the last chunk of the normalized list (text: previous text,
\* one blank, chunk text; end_idx: the chunk's; start_idx and metadata kept;
\* no chunk added) exactly when the chunk is shorter than min_chunk_size, the
\* list is not empty and the merged length is at most max_chunk_size; in every
\* other case the chunk is appended unchanged, so the first chunk and a chunk
\* of length min_chunk_size or max_chunk_size pass through.
C22_MergeIntoPrevious ==
    [][(/\ pc = "normalize" /\ ni <= Len(raw)
        /\ Len(raw[ni].text) <= config.max_chunk_size
        /\ ni' # ni)
       => LET chunk == raw[ni]
              n     == Len(normalized)
          IN  IF /\ Len(chunk.text) < config.min_chunk_size
                 /\ n > 0
                 /\ Len(normalized[n].text) + 1 + Len(chunk.text) <= config.max_chunk_size
              THEN /\ Len(normalized') = n
                   /\ SubSeq(normalized', 1, n - 1) = SubSeq(normalized, 1, n - 1)
                   /\ normalized'[n].text = normalized[n].text \o <<" ">> \o chunk.text
                   /\ normalized'[n].end_idx = chunk.end_idx
                   /\ normalized'[n].start_idx = normalized[n].start_idx
                   /\ normalized'[n].metadata = normalized[n].metadata
              ELSE normalized' = Append(normalized, chunk)]_vars

\* three undersized chunks: the second was merged into the first, the third
\* was kept on its own because the merged text would be too long
C22_Witness ==
    /\ pc = "done"
    /\ Len(raw) = 3 /\ Len(result) = 2
    /\ \A i \in 1..3 : Len(raw[i].text) < config.min_chunk_size
    /\ result[1].text = raw[1].text \o <<" ">> \o raw[2].text
    /\ result[1].start_idx = raw[1].start_idx /\ result[1].end_idx = raw[2].end_idx
    /\ result[2] = raw[3]

---------------------------------------------------------------------------
(* Properties of the offsets                                               *)

\* the passage's text is the trimmed slice of the document at its offsets
InDocument(c) == c.text = Strip(Slice(text, c.start_idx, c.end_idx))

MetaValue(m, key) == IF key = "type" THEN <<m.type>>
                     ELSE IF key = "header" THEN <<m.header>>
                     ELSE IF key = "level" THEN <<m.level>>
                     ELSE <<m.hierarchy>>

\* sub carries every metadata key and value of chunk
Carries(sub, chunk) ==
    \A key \in chunk.metadata.keys :
        /\ key \in sub.metadata.keys
        /\ MetaValue(sub.metadata, key) = MetaValue(chunk.metadata, key)

\* C23: the text of every passage not made by a merge is the trimmed slice
\* document[start_idx:end_idx]: of the passages of the initial split, and of
\* the sub-chunks normalization makes of an oversized chunk, which also carry
\* every metadata key and value of that chunk.
C23_OffsetsIntoDocument ==
    [][/\ \A i \in 1..Len(raw') : InDocument(raw'[i])
       /\ (pc = "basic" /\ caller = "normalize" /\ pc' = "normalize")
          => \A j \in 1..Len(bchunks) :
                LET sub == normalized'[Len(normalized) + j]
                IN  /\ InDocument(sub)
                    /\ Carries(sub, raw[ni])]_vars

---------------------------------------------------------------------------
(* Properties of the metric                                                *)

\* C24: the score search computes fits the similarity structure the service
\* holds: 1/(1+d) for a squared-L2 structure, the raw inner product for an
\* inner-product structure.
C24_MetricMatchesScore ==
    /\ svc.index.metric = "L2" => \A d \in 0..4 : Score(svc, d) = Recip(1 + d)
    /\ svc.index.metric = "IP" => \A d \in -1..1 : Score(svc, d) = Float(d)

---------------------------------------------------------------------------
(* Properties of the retry loop                                            *)

TransientCall(c) == ~c.ok /\ ~IsInvalidKey(c.words) /\ IsTransient(c.words)

\* C25: call_gemini_with_retry calls call_gemini at most MAX_RETRIES (3)
\* times; a call that succeeds returns its text with no further call; a
\* transient error on attempt i (counted from 0) is followed by a wait of
\* RETRY_DELAYS[i] (5, 15, 30 s) before anything else; an invalid-API-key
\* error raises ValueError and any other error is re-raised, both with no
\* further call; after 3 transient failures RuntimeError is raised with the
\* last error.
C25_RetryContract ==
    LET calls == retry.calls
        n     == Len(calls)
        out   == retry.outcome
    IN  /\ n <= 3
        /\ \A i \in 1..(n - 1) : TransientCall(calls[i])
        /\ \A i \in 1..Len(retry.waits) : retry.waits[i] = <<5, 15, 30>>[i]
        /\ Len(retry.waits) = Cardinality({i \in 1..n : TransientCall(calls[i])})
                              - (IF retry.pc = "sleep" THEN 1 ELSE 0)
        /\ retry.pc = "sleep" => n > 0 /\ TransientCall(calls[n])
        /\ (n > 0 /\ calls[n].ok) =>
              retry.pc = "returned" /\ out.kind = "return" /\ out.text = calls[n].text
        /\ (n > 0 /\ ~calls[n].ok /\ IsInvalidKey(calls[n].words)) =>
              retry.pc = "raised" /\ out.kind = "ValueError"
        /\ (n > 0 /\ ~calls[n].ok /\ ~IsInvalidKey(calls[n].words) /\ ~IsTransient(calls[n].words)) =>
              retry.pc = "raised" /\ out.kind = "reraise" /\ out.error = calls[n].words
        /\ retry.pc = "returned" => (n > 0 /\ calls[n].ok)
        /\ (retry.pc = "raised" /\ out.kind = "RuntimeError") =>
              /\ n = 3 /\ TransientCall(calls[3])
              /\ out.error = calls[3].words
        /\ (n = 3 /\ TransientCall(calls[3])) => retry.pc \in {"sleep", "call", "raised"}
        /\ (retry.pc = "raised" /\ n = 3 /\ TransientCall(calls[3])) => out.kind = "RuntimeError"

\* three transient failures with different errors, the waits 5, 15 and 30 s
\* slept, and RuntimeError raised
C25_Witness ==
    /\ retry.pc = "raised" /\ retry.outcome.kind = "RuntimeError"
    /\ retry.waits = <<5, 15, 30>>
    /\ retry.calls[1] # retry.calls[3]

---------------------------------------------------------------------------
(* Properties of the balancer                                              *)

\* C26: get_next_endpoint ends within one round over the endpoints; when an
\* endpoint was healthy at its entry it returns the index of a healthy
\* endpoint and resets nothing; it resets all endpoints to healthy only when
\* none was healthy.
C26_ReturnsHealthy ==
    /\ lb.passes <= NumEndpoints
    /\ lb.pc = "returned" =>
          /\ lb.status[lb.returned + 1] = "healthy"
          /\ lb.reset <=> (\A i \in 1..NumEndpoints : lb.entry[i] = "unhealthy")
          /\ ~lb.reset => lb.status = lb.entry

---------------------------------------------------------------------------
(* Properties of the LRU cache                                             *)

\* the cached key whose last use lies farthest back
LeastRecentlyUsed(c) ==
    LET place(k) == CHOOSE i \in 1..Len(c.used) : c.used[i] = k
    IN  CHOOSE k \in CacheKeys(c.cache) :
            \A o \in CacheKeys(c.cache) : place(k) <= place(o)

ValueAt(cache, key) == cache[CacheValue(cache, key)].value

\* C27: the cache never holds more than capacity entries; a set of a new key
\* into a full cache evicts exactly one entry, the least recently used one (a
\* hit of get and every set make their key the most recently used), and no
\* other call evicts anything; get of a cached key returns its value, which is
\* the value last set for it.
C27_LruEviction ==
    [][LET key     == lru'.last.key
           before  == CacheKeys(lru.cache)
           after   == CacheKeys(lru'.cache)
           evicted == before \ after
       IN  /\ Len(lru'.cache) <= lru'.capacity
           /\ Cardinality(after) = Len(lru'.cache)
           /\ \A k \in (before \cap after) \ {key} :
                 ValueAt(lru'.cache, k) = ValueAt(lru.cache, k)
           /\ lru'.last.op = "set" =>
                 /\ lru.capacity >= 1 =>
                       key \in after /\ ValueAt(lru'.cache, key) = lru'.last.value
                 /\ IF key \notin before /\ Len(lru.cache) = lru.capacity /\ lru.cache # <<>>
                    THEN evicted = {LeastRecentlyUsed(lru)}
                    ELSE evicted = {}
           /\ lru'.last.op = "get" =>
                 /\ after = before
                 /\ IF key \in before
                    THEN /\ lru'.last.result = <<ValueAt(lru.cache, key)>>
                         /\ ValueAt(lru'.cache, key) = ValueAt(lru.cache, key)
                    ELSE lru'.last.result = <<>>]_vars

\* a full cache of capacity 2 after set p, set q, a hit of get on p and a
\* set of the new key r: q, the least recently used key, is gone, p is kept
C27_Witness ==
    /\ lru.capacity = 2 /\ Len(lru.cache) = 2
    /\ lru.last.op = "set" /\ lru.hits = 1
    /\ lru.used = <<get_key("q", "m"), get_key("p", "m"), get_key("r", "m")>>
    /\ lru.cache[1].key = get_key("p", "m")
    /\ lru.cache[2].key = get_key("r", "m")

---------------------------------------------------------------------------
(* Properties of the window memory                                         *)

\* C28: after every add_message, messages[0] is the system message, at most
\* window_size other messages are retained, they are the messages added last,
\* in the order added, and full_history has gained the new message at its end
\* and lost nothing.
C28_WindowBounded ==
    [][LET kept == Tail(wm'.messages)
           all  == wm'.full_history
       IN  /\ wm'.messages[1] = SystemMessage
           /\ Len(kept) <= wm'.window_size
           /\ Len(kept) <= Len(all)
           /\ kept = SubSeq(all, Len(all) - Len(kept) + 1, Len(all))
           /\ Len(all) = Len(wm.full_history) + 1
           /\ SubSeq(all, 1, Len(wm.full_history)) = wm.full_history]_vars

---------------------------------------------------------------------------
(* Properties of process_file                                              *)

\* C29: a call of process_file that fails leaves processed_documents as it
\* was, with FileNotFoundError for a path that does not exist, ValueError for
\* a suffix without a parser, and an error for a parser or chunking exception;
\* a call that succeeds stores the document it returns under str(file_path),
\* in place of an earlier entry, and changes no other entry; nothing else
\* changes processed_documents.
C29_StoredOnSuccessOnly ==
    [][LET key == PathStr(file_path')
       IN  /\ stage' = "failed" =>
                 /\ processed_documents' = processed_documents
                 /\ outcome' = IF ~Exists(file_path') THEN "FileNotFoundError"
                               ELSE IF Lower(file_path'.suffix) # ".md" THEN "ValueError"
                               ELSE "Exception"
           /\ (stage' = "processed" /\ stage # "processed") =>
                 /\ document' # NoFile
                 /\ Content(document').chunks = result
                 /\ processed_documents'[key] = document'
                 /\ \A k \in DOMAIN processed_documents :
                       k # key => processed_documents'[k] = processed_documents[k]
           /\ ~(stage' = "processed" /\ stage # "processed") =>
                 processed_documents' = processed_documents]_vars

\* a call has failed on a chunking exception while two documents are stored,
\* and a.md has been processed again with another text
C29_Witness ==
    /\ stage = "failed" /\ outcome = "Exception" /\ file_path = FilePath("g", ".md")
    /\ pc = "raised"
    /\ processed_documents[PathStr(FilePath("B", ".MD"))] # NoFile
    /\ processed_documents[PathStr(KbFile)] # NoFile
    /\ Content(processed_documents[PathStr(KbFile)]).num_chunks = 1

---------------------------------------------------------------------------
(* Properties of the /api/generate event stream                            *)

\* the progress events among the chunks sent, as the events they were made of
RECURSIVE ProgressSent(_)
ProgressSent(sent) ==
    IF sent = <<>> THEN <<>>
    ELSE IF Head(sent).event = "progress"
    THEN <<[step |-> Head(sent).step, type |-> Head(sent).type]>> \o ProgressSent(Tail(sent))
    ELSE ProgressSent(Tail(sent))

\* the progress events the pipeline emitted
ProgressEmitted(emitted) ==
    [i \in 1..Len(emitted) |-> [step |-> emitted[i].step, type |-> emitted[i].type]]

IsPrefix(s, t) == Len(s) <= Len(t) /\ SubSeq(t, 1, Len(s)) = s

\* the positions of the terminal events among the chunks sent
Terminals(sent) == {i \in 1..Len(sent) : sent[i].event \in {"complete", "error"}}

\* the progress events reach the client in the order of their emission
StreamInOrder == IsPrefix(ProgressSent(stream.sent), ProgressEmitted(stream.emitted))

\* one terminal event, the last chunk, after every progress event emitted
StreamOneTerminal ==
    /\ Cardinality(Terminals(stream.sent)) <= 1
    /\ Terminals(stream.sent) # {} =>
          /\ Terminals(stream.sent) = {Len(stream.sent)}
          /\ stream.pos = Len(run_pipeline) + 2
          /\ ProgressSent(stream.sent) = ProgressEmitted(stream.emitted)
    /\ stream.pc = "closed" => Terminals(stream.sent) # {}

\* once the terminal event is sent after cells_generated was emitted, the
\* draft file is written and draft_ready was sent
StreamDraftReady ==
    (/\ Terminals(stream.sent) # {}
     /\ \E i \in 1..Len(stream.emitted) : stream.emitted[i].type = "cells_generated")
    => /\ stream.draft
       /\ \E i \in 1..Len(stream.sent) : stream.sent[i].event = "draft_ready"

\* C30: in every interleaving of the pipeline thread, the loop and
\* event_stream, the progress events are sent in the order of their emission,
\* the stream ends with exactly one terminal event (complete or error) sent
\* after all progress events, and when cells_generated was emitted the draft
\* file is written and draft_ready is sent before the terminal event.
C30_StreamContract == StreamInOrder /\ StreamOneTerminal /\ StreamDraftReady

====
